---- MODULE Spec2Model ----
(***************************************************************************)
(* A model of the amalgam-lisp evaluator: the Amalgam variants, the nested *)
(* Environment with its search depth, the evaluate/call protocol with the  *)
(* Failure / FailureStack propagation of amalgams.py, and the primordial    *)
(* functions of the amalgam.primordials package that drive closures and     *)
(* loop/break/return.                                                       *)
(***************************************************************************)
EXTENDS Integers, Sequences, FiniteSets, TLC

(***************************************************************************)
(* Bounds of the model.                                                    *)
(***************************************************************************)
\* evaluate() calls one top-level evaluation may make before it is taken
\* not to terminate
MaxSteps == 200
\* top-level operations (programs run, host operations on environments)
MaxOps == 3
\* host operations of the environment specification
MaxEnvOps == 4
\* host operations of the lookup specification
MaxScopeOps == 4
\* programs run by the specification of failures
MaxFailRuns == 3
\* programs run by the specification of closure calls
MaxCallRuns == 2
\* arguments of a call of a function with a &rest formal
MaxArgs == 4
\* operations of the host in a behaviour of SpecLiteral
MaxLiteralOps == 4
\* operations of the host in a behaviour of SpecVector
MaxVectorOps == 2
\* length of the Vectors the host builds
MaxLen == 3
\* calls of the Engine in a behaviour of SpecEngine
MaxEngineRuns == 3
\* lines typed at the REPL
MaxReplLines == 3
\* programs run by the specification of Functions passed around
MaxClosureRuns == 3
\* programs run by the specification of loops
MaxLoopRuns == 4

(***************************************************************************)
(* Amalgam variants (amalgams.py).  A Function value is a reference into   *)
(* the heap of Function objects, which carry the mutable fields.           *)
(***************************************************************************)
Atom(value) == [t |-> "Atom", atom |-> value]
Numeric(value) == [t |-> "Numeric", num |-> value]
String(value) == [t |-> "String", str |-> value]
Symbol(value) == [t |-> "Symbol", sym |-> value]
Quoted(value) == [t |-> "Quoted", quoted |-> value]
SExpression(vals) == [t |-> "SExpression", vals |-> vals]
Vector(vals) == [t |-> "Vector", vals |-> vals]
Function(id) == [t |-> "Function", id |-> id]
Internal(value) == [t |-> "Internal", value |-> value]

(***************************************************************************)
(* Natural numbers of any size, for the numbers a float stands for: the    *)
(* sequence of the digits to the base 2^15, the lowest first, the highest  *)
(* not zero; <<>> is zero.                                                 *)
(***************************************************************************)
Radix == 2 ^ 15

RECURSIVE gcd(_, _)
gcd(a, b) == IF b = 0 THEN a ELSE gcd(b, a % b)

abs(n) == IF n < 0 THEN 0 - n ELSE n
lesser(a, b) == IF a < b THEN a ELSE b

\* the natural number of a non-negative integer, and the integer of one
RECURSIVE nat(_)
nat(n) == IF n = 0 THEN <<>> ELSE <<n % Radix>> \o nat(n \div Radix)
RECURSIVE nat_int(_)
nat_int(a) == IF a = <<>> THEN 0 ELSE a[1] + Radix * nat_int(Tail(a))

\* a without the zeros at its high end
top_digit(a) ==
    IF \A i \in 1..Len(a) : a[i] = 0 THEN 0
    ELSE CHOOSE i \in 1..Len(a) :
            a[i] # 0 /\ \A j \in (i + 1)..Len(a) : a[j] = 0
trimmed(a) == SubSeq(a, 1, top_digit(a))

digit(a, i) == IF 1 <= i /\ i <= Len(a) THEN a[i] ELSE 0

\* a + b: a carry comes into the digit i from a digit below that makes
\* one, through digits that pass it on
carry_into(a, b, i) ==
    \E j \in 1..(i - 1) :
        /\ digit(a, j) + digit(b, j) >= Radix
        /\ \A k \in (j + 1)..(i - 1) : digit(a, k) + digit(b, k) = Radix - 1
longer(a, b) == IF Len(a) < Len(b) THEN Len(b) ELSE Len(a)
nat_add(a, b) ==
    trimmed([i \in 1..(longer(a, b) + 1) |->
                (digit(a, i) + digit(b, i)
                    + IF carry_into(a, b, i) THEN 1 ELSE 0) % Radix])

\* a < b
nat_lt(a, b) ==
    IF Len(a) # Len(b) THEN Len(a) < Len(b)
    ELSE \E i \in 1..Len(a) :
            /\ a[i] < b[i]
            /\ \A j \in (i + 1)..Len(a) : a[j] = b[j]

\* a - b, for b <= a
borrow_into(a, b, i) ==
    \E j \in 1..(i - 1) :
        /\ a[j] < digit(b, j)
        /\ \A k \in (j + 1)..(i - 1) : a[k] = digit(b, k)
nat_sub(a, b) ==
    trimmed([i \in 1..Len(a) |->
                (a[i] - digit(b, i) + Radix
                    - IF borrow_into(a, b, i) THEN 1 ELSE 0) % Radix])

\* a * m for m up to Radix: the low halves of the products of the digits,
\* and the high halves a digit higher
nat_scale(a, m) ==
    nat_add([i \in 1..Len(a) |-> (a[i] * m) % Radix],
            <<0>> \o [i \in 1..Len(a) |-> (a[i] * m) \div Radix])

\* a * b: a times the low half of the digits of b and a times the high half
RECURSIVE nat_product(_, _)
nat_product_halves(a, b, half) ==
    nat_add(nat_product(a, SubSeq(b, 1, half)),
            [i \in 1..half |-> 0]
                \o nat_product(a, SubSeq(b, half + 1, Len(b))))
nat_product(a, b) ==
    IF Len(b) = 1 THEN nat_scale(a, b[1])
    ELSE nat_product_halves(a, b, Len(b) \div 2)
nat_mul(a, b) == IF a = <<>> \/ b = <<>> THEN <<>> ELSE nat_product(a, b)

\* the number of bits of a
bits(x) ==
    IF x = 0 THEN 0 ELSE CHOOSE k \in 1..15 : 2 ^ (k - 1) <= x /\ x < 2 ^ k
bit_length(a) == IF a = <<>> THEN 0 ELSE 15 * (Len(a) - 1) + bits(a[Len(a)])

\* a * 2^k
nat_doubled(a, k) ==
    trimmed([i \in 1..(Len(a) + 1) |->
                ((digit(a, i) * 2 ^ k) % Radix)
                    + (digit(a, i - 1) \div 2 ^ (15 - k))])
nat_shl(a, k) ==
    IF a = <<>> THEN <<>>
    ELSE [i \in 1..(k \div 15) |-> 0] \o nat_doubled(a, k % 15)

\* a \div 2^k
nat_halved(a, k) ==
    trimmed([i \in 1..Len(a) |->
                (a[i] \div 2 ^ k)
                    + (digit(a, i + 1) % 2 ^ k) * 2 ^ (15 - k)])
nat_shr(a, k) == nat_halved(SubSeq(a, k \div 15 + 1, Len(a)), k % 15)

\* divmod(n, d) by the digits of n, the highest first, for a d whose highest
\* digit is Radix / 2 or more: the digit of the quotient for the remainder
\* r, which is below d * Radix, is the quotient of the two highest digits
\* of r by the highest of d, or one or two less
quotient_estimate(r, d) ==
    (digit(r, Len(d) + 1) * Radix + digit(r, Len(d))) \div d[Len(d)]
quotient_digit_near(r, d, estimate) ==
    CHOOSE c \in 0..(Radix - 1) :
        /\ estimate - 2 <= c /\ c <= estimate
        /\ ~nat_lt(r, nat_scale(d, c)) /\ nat_lt(r, nat_scale(d, c + 1))
quotient_digit(r, d) == quotient_digit_near(r, d, quotient_estimate(r, d))
nat_divmod_with(d, q, r, c) ==
    [q |-> trimmed(<<c>> \o q), r |-> nat_sub(r, nat_scale(d, c))]
nat_divmod_digit(d, q, r) == nat_divmod_with(d, q, r, quotient_digit(r, d))
\* the digits of n from the digit i down join the remainder in turn
RECURSIVE nat_divmod_from(_, _, _, _)
nat_divmod_from(n, d, i, s) ==
    IF i = 0 THEN s
    ELSE nat_divmod_from(n, d, i - 1,
                         nat_divmod_digit(d, s.q, trimmed(<<n[i]>> \o s.r)))
\* the k low digits of n are left to join: what is above them is below d
nat_divmod_low(n, d, k) ==
    nat_divmod_from(n, d, k, [q |-> <<>>, r |-> SubSeq(n, k + 1, Len(n))])
nat_divmod_normal(n, d) ==
    nat_divmod_low(n, d, IF Len(n) >= Len(d) THEN Len(n) - Len(d) + 1 ELSE 0)
\* n and d are made 2^k times what they are, and so is the remainder
nat_divmod_shifted(n, d, k) ==
    [nat_divmod_normal(nat_shl(n, k), nat_shl(d, k))
        EXCEPT !.r = nat_shr(@, k)]
nat_divmod(n, d) == nat_divmod_shifted(n, d, 15 - bits(d[Len(d)]))

\* the number of zero bits at the low end of a positive number
low_zeros(x) == CHOOSE k \in 0..14 : x % 2 ^ (k + 1) = 2 ^ k
low_digit(a) ==
    CHOOSE i \in 1..Len(a) : a[i] # 0 /\ \A j \in 1..(i - 1) : a[j] = 0
nat_low_zeros(a) == 15 * (low_digit(a) - 1) + low_zeros(a[low_digit(a)])

\* 5^k and 10^k
nat_square(a) == nat_mul(a, a)
RECURSIVE nat_power_of_five(_)
nat_power_of_five(k) ==
    IF k = 0 THEN <<1>>
    ELSE IF k % 2 = 1 THEN nat_scale(nat_power_of_five(k - 1), 5)
    ELSE nat_square(nat_power_of_five(k \div 2))
nat_power_of_ten(k) == nat_shl(nat_power_of_five(k), k)

(***************************************************************************)
(* Python values.  The value attribute of an Amalgam holds a Python value: *)
(* an int, a float, a Fraction, a str, or another object.  A float is an   *)
(* IEEE 754 double: a finite one is (-1)^neg * m * 2^e with m a natural    *)
(* number that is odd or zero (e is 0 for zero), and its arithmetic rounds *)
(* the exact result to the nearest double, a tie to the even one.          *)
(***************************************************************************)
PyInt(n) == [py |-> "int", n |-> n]
PyStr(s) == [py |-> "str", s |-> s]
\* the Fraction p/q in lowest terms, q > 0
PyFraction(p, q) ==
    LET g == gcd(abs(p), abs(q))
        unit == IF q < 0 THEN -1 ELSE 1
    IN [py |-> "Fraction", p |-> unit * (p \div g), q |-> unit * (q \div g)]
\* an Amalgam held as a value (Quoted.value): a dataclass instance with
\* eq and without hash
PyObject(amalgam) == [py |-> "object", amalgam |-> amalgam]
\* the host object an Internal holds
PyOpaque(value) == [py |-> "opaque", tag |-> value]
\* a Python operation that raised
PyRaise(exc) == [py |-> "raise", exc |-> exc]

\* the floats inf and -inf, nan, and the finite float (-1)^neg * m * 2^e.
\* A nan is not equal to itself, and Python takes an object for equal to
\* itself where it compares the items of a tuple or looks up a key: so a
\* nan is held with the object it is.  <<0, n>> is the n-th nan object the
\* host made and <<o, n>> the n-th one the evaluation of operation o made;
\* <<0, 0>> is a nan object that nothing else holds.
Infinity(neg) ==
    [py |-> "float", kind |-> "inf", neg |-> neg, m |-> <<>>, e |-> 0]
NaNObject(id) ==
    [py |-> "float", kind |-> "nan", neg |-> FALSE, m |-> <<>>, e |-> 0,
     id |-> id]
NaN == NaNObject(<<0, 0>>)
odd_float(neg, m, e, zeros) ==
    [py |-> "float", kind |-> "finite", neg |-> neg,
     m |-> nat_shr(m, zeros), e |-> e + zeros]
Float(neg, m, e) ==
    IF m = <<>>
    THEN [py |-> "float", kind |-> "finite", neg |-> neg, m |-> <<>>, e |-> 0]
    ELSE odd_float(neg, m, e, nat_low_zeros(m))

\* m * 2^e as a float: at 2^1024 the doubles end
float_or_inf(neg, m, e) ==
    IF bit_length(m) + e > 1024 THEN Infinity(neg) ELSE Float(neg, m, e)

\* the integer nearest to a quotient, the even one of two: qr is
\* divmod(n, d)
nearest(qr, d, twice) ==
    IF nat_lt(d, twice) \/ (twice = d /\ digit(qr.q, 1) % 2 = 1)
    THEN nat_add(qr.q, <<1>>) ELSE qr.q
round_half_even(qr, d) == nearest(qr, d, nat_scale(qr.r, 2))

\* the multiple of 2^q nearest to n / d * 2^q
round_to_multiple(neg, n, d, q) ==
    float_or_inf(neg, round_half_even(nat_divmod(n, d), d), q)
\* the multiple of 2^q nearest to n / d * 2^(q + s)
round_to_quantum(neg, n, d, s, q) ==
    round_to_multiple(neg, IF s >= 0 THEN nat_shl(n, s) ELSE n,
                      IF s >= 0 THEN d ELSE nat_shl(d, 0 - s), q)

\* the quantum of the doubles in [2^x, 2^(x+1)): a double has 53 bits, and
\* no bit below 2^-1074
quantum(x) == IF x - 52 < -1074 THEN -1074 ELSE x - 52

\* the double nearest to n / d * 2^e, l being floor(log2(n / d)): at 2^1024
\* the doubles end, and what is below 2^-1075 is nearest to zero
round_to_double(neg, n, d, e, l) ==
    IF l + e >= 1024 THEN Infinity(neg)
    ELSE IF l + e < -1075 THEN Float(neg, <<>>, 0)
    ELSE round_to_quantum(neg, n, d, e - quantum(l + e), quantum(l + e))

\* floor(log2(n / d)), which is k or k - 1 for the difference k of the
\* bit lengths
log2_floor_near(n, d, k) ==
    IF IF k >= 0 THEN nat_lt(n, nat_shl(d, k))
       ELSE nat_lt(nat_shl(n, 0 - k), d)
    THEN k - 1 ELSE k
log2_floor(n, d) == log2_floor_near(n, d, bit_length(n) - bit_length(d))

\* the float of an exact number x: the sign stays with a zero, n / 0 is an
\* infinity and 0 / 0 nan.  An exact number is the record of a sign neg,
\* two natural numbers n and d and an integer e, and is
\* (-1)^neg * n / d * 2^e
float_of_ratio(x) ==
    IF x.d = <<>> THEN IF x.n = <<>> THEN NaN ELSE Infinity(x.neg)
    ELSE IF x.n = <<>> THEN Float(x.neg, <<>>, 0)
    ELSE round_to_double(x.neg, x.n, x.d, x.e, log2_floor(x.n, x.d))

\* p / q for two int, q not zero
PyFloat(p, q) ==
    float_of_ratio([neg |-> (p < 0) # (q < 0), n |-> nat(abs(p)),
                    d |-> nat(abs(q)), e |-> 0])

is_number(v) == v.py \in {"int", "float", "Fraction"}
is_float(v) == v.py = "float"
numerator(v) == IF v.py = "int" THEN v.n ELSE v.p
denominator(v) == IF v.py = "int" THEN 1 ELSE v.q

\* float(v) for a number
to_float(v) ==
    CASE v.py = "float" -> v
      [] v.py = "int" -> Float(v.n < 0, nat(abs(v.n)), 0)
      [] v.py = "Fraction" -> PyFloat(v.p, v.q)

\* the exact number a number stands for; an infinity is 1 / 0 and nan 0 / 0
ratio(v) ==
    CASE v.py = "int" ->
            [neg |-> v.n < 0, n |-> nat(abs(v.n)), d |-> <<1>>, e |-> 0]
      [] v.py = "Fraction" ->
            [neg |-> v.p < 0, n |-> nat(abs(v.p)), d |-> nat(v.q), e |-> 0]
      [] v.py = "float" /\ v.kind = "inf" ->
            [neg |-> v.neg, n |-> <<1>>, d |-> <<>>, e |-> 0]
      [] v.py = "float" /\ v.kind = "nan" ->
            [neg |-> FALSE, n |-> <<>>, d |-> <<>>, e |-> 0]
      [] v.py = "float" /\ v.kind = "finite" ->
            [neg |-> v.neg, n |-> v.m, d |-> <<1>>, e |-> v.e]

\* -1, 0 or 1
sign(x) == IF x.n = <<>> THEN 0 ELSE IF x.neg THEN -1 ELSE 1
negated(x) == [x EXCEPT !.neg = ~x.neg]
is_zero(x) == x.n = <<>> /\ x.d # <<>>
is_infinite(x) == x.n # <<>> /\ x.d = <<>>
is_undefined(x) == x.n = <<>> /\ x.d = <<>>
\* floor(log2(|x|)) for a finite x that is not zero
log2_of(x) == log2_floor(x.n, x.d) + x.e
\* the numerator of x over the denominator of x and y and 2^e, for an e
\* that is not more than that of x
numerator_over(x, y, e) == nat_shl(nat_mul(x.n, y.d), x.e - e)

\* -1, 0 or 1 as a is less than, equal to or more than b
compared(a, b) == IF a = b THEN 0 ELSE IF nat_lt(a, b) THEN -1 ELSE 1

\* |x| against |y| for two exact numbers that are not zero: by their
\* logarithms lx and ly, and by the numerators where these are the same
aligned_cmp(x, y, e) ==
    compared(numerator_over(x, y, e), numerator_over(y, x, e))
finite_cmp(x, y, lx, ly) ==
    IF lx # ly THEN IF lx < ly THEN -1 ELSE 1
    ELSE aligned_cmp(x, y, lesser(x.e, y.e))
magnitude_cmp(x, y) ==
    IF is_infinite(x) THEN IF is_infinite(y) THEN 0 ELSE 1
    ELSE IF is_infinite(y) THEN -1
    ELSE finite_cmp(x, y, log2_of(x), log2_of(y))

\* x against y for two exact numbers: -1, 0 or 1, and 2 where one of them
\* is nan, which is neither less than a number nor equal to one
ratio_cmp(x, y) ==
    IF is_undefined(x) \/ is_undefined(y) THEN 2
    ELSE IF sign(x) # sign(y) THEN IF sign(x) < sign(y) THEN -1 ELSE 1
    ELSE IF sign(x) = 0 THEN 0
    ELSE sign(x) * magnitude_cmp(x, y)

\* x + y for two finite floats, p and q being their numerators over 2^e; an
\* exact zero is +0 unless both are -0
ratio_sum(x, y, p, q, e) ==
    IF x.neg = y.neg
    THEN [neg |-> x.neg, n |-> nat_add(p, q), d |-> <<1>>, e |-> e]
    ELSE IF nat_lt(p, q)
    THEN [neg |-> y.neg, n |-> nat_sub(q, p), d |-> <<1>>, e |-> e]
    ELSE [neg |-> x.neg /\ p # q, n |-> nat_sub(p, q), d |-> <<1>>, e |-> e]
ratio_add(x, y, e) ==
    ratio_sum(x, y, nat_shl(x.n, x.e - e), nat_shl(y.n, y.e - e), e)

\* y is less than a quarter of what lies between x and the doubles next
\* to it, which are 53 bits wide: x + y rounds to x
far_below(y, x) ==
    /\ x.n # <<>> /\ y.n # <<>>
    /\ bit_length(y.n) + y.e + 55 <= bit_length(x.n) + x.e

\* what x + y is rounded from, for the exact numbers of two floats; nan is
\* 0 / 0 and an infinity 1 / 0
ratio_plus(x, y) ==
    IF is_undefined(x) \/ is_undefined(y) THEN ratio(NaN)
    ELSE IF is_infinite(x) /\ is_infinite(y) /\ x.neg # y.neg THEN ratio(NaN)
    ELSE IF is_infinite(x) THEN x
    ELSE IF is_infinite(y) THEN y
    ELSE IF far_below(y, x) THEN x
    ELSE IF far_below(x, y) THEN y
    ELSE ratio_add(x, y, lesser(x.e, y.e))
\* x * y and x / y; with 1 / 0 and 0 / 0 they give what IEEE 754 gives for
\* an infinity and nan
ratio_mul(x, y) ==
    [neg |-> x.neg # y.neg, n |-> nat_mul(x.n, y.n), d |-> nat_mul(x.d, y.d),
     e |-> x.e + y.e]
ratio_div(x, y) ==
    [neg |-> x.neg # y.neg, n |-> nat_mul(x.n, y.d), d |-> nat_mul(x.d, y.n),
     e |-> x.e - y.e]

\* the exact x op y
ratio_binop(op, x, y) ==
    CASE op \in {"+", "-"} -> ratio_plus(x, IF op = "-" THEN negated(y) ELSE y)
      [] op = "*" -> ratio_mul(x, y)
      [] op = "/" -> ratio_div(x, y)

\* x op y rounded to a float; Python raises where the divisor is zero
float_binop(op, x, y) ==
    IF op = "/" /\ is_zero(y) THEN PyRaise("ZeroDivisionError")
    ELSE float_of_ratio(ratio_binop(op, x, y))

\* the type of the result of an arithmetic operator on an int or a
\* Fraction and another
number_type(a, b) ==
    IF a.py = "Fraction" \/ b.py = "Fraction" THEN "Fraction" ELSE "int"

\* the number p/q as a value of the type kind
number(kind, p, q) ==
    IF kind = "int" THEN PyInt(p \div q) ELSE PyFraction(p, q)

\* a op b for an int or a Fraction and another, but for int / int
exact_binop(op, a, b) ==
    CASE op = "+" ->
            number(number_type(a, b),
                   numerator(a) * denominator(b) + numerator(b) * denominator(a),
                   denominator(a) * denominator(b))
      [] op = "-" ->
            number(number_type(a, b),
                   numerator(a) * denominator(b) - numerator(b) * denominator(a),
                   denominator(a) * denominator(b))
      [] op = "*" ->
            number(number_type(a, b), numerator(a) * numerator(b),
                   denominator(a) * denominator(b))
      [] op = "/" ->
            IF numerator(b) = 0 THEN PyRaise("ZeroDivisionError")
            ELSE PyFraction(numerator(a) * denominator(b),
                            denominator(a) * numerator(b))

\* a op b where the result is a float, f being the float of the operand
\* that is a Fraction, if one is: a Fraction meets a float as a float, and so
\* does an int, whose float is the int
float_operand(v, f) == IF v.py = "Fraction" THEN ratio(f) ELSE ratio(v)
mixed_binop(op, a, b, f) ==
    float_binop(op, float_operand(a, f), float_operand(b, f))

\* a op b for two numbers: a float with a float among them, and for
\* int / int, which is the float nearest to the quotient
number_binop(op, a, b) ==
    IF is_float(a) \/ is_float(b) \/ (op = "/" /\ number_type(a, b) = "int")
    THEN mixed_binop(op, a, b, to_float(IF a.py = "Fraction" THEN a ELSE b))
    ELSE exact_binop(op, a, b)

\* s * n for a str s
RECURSIVE str_repeat(_, _)
str_repeat(s, n) ==
    IF n <= 0 THEN ""
    ELSE IF n = 1 THEN s
    ELSE str_repeat(s, n \div 2) \o str_repeat(s, n - n \div 2)

\* a op b for the operators +, -, * and /
py_binop(op, a, b) ==
    IF is_number(a) /\ is_number(b) THEN number_binop(op, a, b)
    ELSE IF op = "+" /\ a.py = "str" /\ b.py = "str" THEN PyStr(a.s \o b.s)
    ELSE IF op = "*" /\ a.py = "str" /\ b.py = "int"
    THEN PyStr(str_repeat(a.s, b.n))
    ELSE IF op = "*" /\ a.py = "int" /\ b.py = "str"
    THEN PyStr(str_repeat(b.s, a.n))
    ELSE PyRaise("TypeError")

\* the position of the first c in s, 0 when there is none
find(s, c) ==
    IF \E i \in 1..Len(s) : SubSeq(s, i, i) = c
    THEN CHOOSE i \in 1..Len(s) :
            /\ SubSeq(s, i, i) = c
            /\ \A j \in 1..(i - 1) : SubSeq(s, j, j) # c
    ELSE 0

\* the code point of a one-character str.  The characters U+0001 to U+005F
\* and U+0061 to U+00FF stand in the two tables in the order of their code
\* points; 256 stands for every other character.
CodePointsLow ==
       "\t\n\f\r "
    \o "!\"#$%&'()*+,-./0123456789:;<=>?@"
    \o "ABCDEFGHIJKLMNOPQRSTUVWXYZ[\\]^_"
CodePointsHigh ==
       "abcdefghijklmnopqrstuvwxyz{|}~"
    \o " "
    \o "¡¢£¤¥¦§¨©ª«¬­®¯°±²³´µ¶·¸¹º»¼½¾¿À"
    \o "ÁÂÃÄÅÆÇÈÉÊËÌÍÎÏÐÑÒÓÔÕÖ×ØÙÚÛÜÝÞßà"
    \o "áâãäåæçèéêëìíîïðñòóôõö÷øùúûüýþÿ"
ord(c) ==
    IF find(CodePointsLow, c) > 0 THEN find(CodePointsLow, c)
    ELSE IF find(CodePointsHigh, c) > 0 THEN 96 + find(CodePointsHigh, c)
    ELSE 256

\* a < b for two str: by the first character in which they differ, the
\* shorter first where there is none
first_difference(a, b) ==
    IF \E i \in 1..lesser(Len(a), Len(b)) : SubSeq(a, i, i) # SubSeq(b, i, i)
    THEN CHOOSE i \in 1..lesser(Len(a), Len(b)) :
            /\ SubSeq(a, i, i) # SubSeq(b, i, i)
            /\ \A j \in 1..(i - 1) : SubSeq(a, j, j) = SubSeq(b, j, j)
    ELSE 0
str_lt_at(a, b, i) ==
    IF i = 0 THEN Len(a) < Len(b)
    ELSE ord(SubSeq(a, i, i)) < ord(SubSeq(b, i, i))
str_lt(a, b) == str_lt_at(a, b, first_difference(a, b))

\* a Python bool
PyBool(b) == [py |-> "bool", b |-> b]

\* amalgam.value; an Amalgam of a class with no such attribute raises
value_of(amalgam) ==
    CASE "pyvalue" \in DOMAIN amalgam -> amalgam.pyvalue
      [] amalgam.t = "Atom" -> PyStr(amalgam.atom)
      [] amalgam.t = "Numeric" -> PyInt(amalgam.num)
      [] amalgam.t = "String" -> PyStr(amalgam.str)
      [] amalgam.t = "Symbol" -> PyStr(amalgam.sym)
      [] amalgam.t = "Quoted" -> PyObject(amalgam.quoted)
      [] amalgam.t = "Internal" -> PyOpaque(amalgam.value)
      [] OTHER -> PyRaise("AttributeError")

\* Numeric(value) and Atom(value) for any Python value
NumericOf(v) ==
    IF v.py = "int" THEN Numeric(v.n) ELSE [t |-> "Numeric", pyvalue |-> v]
AtomOf(v) ==
    IF v.py = "str" THEN Atom(v.s) ELSE [t |-> "Atom", pyvalue |-> v]
\* Numeric(p / q) and Numeric(Fraction(p, q)) for two int
Floating(p, q) == NumericOf(PyFloat(p, q))
Fraction(p, q) == NumericOf(PyFraction(p, q))

\* a against b for two numbers
number_cmp(a, b) == ratio_cmp(ratio(a), ratio(b))

\* a is b, for what is not equal to itself: the same nan object
is_nan(v) == v.py = "float" /\ v.kind = "nan"
is_same(a, b) ==
    /\ is_nan(a) /\ is_nan(b)
    /\ a.id = b.id /\ a.id # <<0, 0>>

RECURSIVE amalgam_eq(_, _)
\* a == b for two values that are not both numbers
other_eq(a, b) ==
    IF a.py # b.py THEN FALSE
    ELSE CASE a.py = "str" -> a.s = b.s
           [] a.py = "object" -> amalgam_eq(a.amalgam, b.amalgam)
           [] a.py = "opaque" -> a.tag = b.tag
           [] OTHER -> FALSE
\* a == b: numbers are compared by the exact numbers they stand for
py_eq(a, b) ==
    IF is_number(a) /\ is_number(b) THEN number_cmp(a, b) = 0
    ELSE other_eq(a, b)

\* a is b or a == b: how the items of two tuples and the keys of a dict
\* are compared (PyObject_RichCompareBool)
is_or_eq(a, b) == is_same(a, b) \/ py_eq(a, b)

\* x == y of the dataclasses: the same class and the tuples of the fields
\* equal
amalgam_eq(x, y) ==
    IF x.t # y.t THEN FALSE
    ELSE CASE x.t \in {"SExpression", "Vector"} ->
                /\ Len(x.vals) = Len(y.vals)
                /\ \A i \in 1..Len(x.vals) : amalgam_eq(x.vals[i], y.vals[i])
           [] x.t = "Function" -> x.id = y.id
           [] OTHER -> is_or_eq(value_of(x), value_of(y))

\* (a,) < (b,) and (a,) <= (b,), the tuples dataclass(order=True) compares:
\* equal says which.  Where a is b or a == b the tuples are equal; where
\* not, it is a < b or a <= b, which is defined between two numbers,
\* between two str and between two Amalgams that are ordered
RECURSIVE amalgam_cmp(_, _, _)
tuple_cmp(a, b, equal) ==
    IF is_number(a) /\ is_number(b)
    THEN PyBool(IF is_same(a, b) THEN equal
                ELSE number_cmp(a, b) \in (IF equal THEN {-1, 0} ELSE {-1}))
    ELSE IF other_eq(a, b) THEN PyBool(equal)
    ELSE IF a.py = "str" /\ b.py = "str" THEN PyBool(str_lt(a.s, b.s))
    ELSE IF a.py = "object" /\ b.py = "object"
    THEN amalgam_cmp(a.amalgam, b.amalgam, equal)
    ELSE PyRaise("TypeError")
tuple_lt(a, b) == tuple_cmp(a, b, FALSE)
tuple_le(a, b) == tuple_cmp(a, b, TRUE)

\* x < y and x <= y: only Numeric and String are ordered, each with its
\* like
amalgam_cmp(x, y, equal) ==
    IF x.t = y.t /\ x.t \in {"Numeric", "String"}
    THEN tuple_cmp(value_of(x), value_of(y), equal)
    ELSE PyRaise("TypeError")
amalgam_lt(x, y) == amalgam_cmp(x, y, FALSE)
amalgam_le(x, y) == amalgam_cmp(x, y, TRUE)

\* the whitespace up to U+00FF that int() and float() take off a str
Spaces == "\t\n\f\r  "
RECURSIVE lstrip(_)
lstrip(s) ==
    IF s # "" /\ find(Spaces, SubSeq(s, 1, 1)) > 0
    THEN lstrip(SubSeq(s, 2, Len(s))) ELSE s
RECURSIVE rstrip(_)
rstrip(s) ==
    IF s # "" /\ find(Spaces, SubSeq(s, Len(s), Len(s))) > 0
    THEN rstrip(SubSeq(s, 1, Len(s) - 1)) ELSE s

is_digit(c) == c \in {"0", "1", "2", "3", "4", "5", "6", "7", "8", "9"}

\* one or more digits, single underscores between them allowed
is_digits(s) ==
    /\ s # ""
    /\ is_digit(SubSeq(s, 1, 1)) /\ is_digit(SubSeq(s, Len(s), Len(s)))
    /\ \A i \in 1..Len(s) :
          \/ is_digit(SubSeq(s, i, i))
          \/ SubSeq(s, i, i) = "_" /\ is_digit(SubSeq(s, i + 1, i + 1))

\* the number the digits of s write, after acc
RECURSIVE digits_value(_, _)
digits_value(s, acc) ==
    IF s = "" THEN acc
    ELSE digits_value(SubSeq(s, 2, Len(s)),
                      IF SubSeq(s, 1, 1) = "_" THEN acc
                      ELSE 10 * acc + find("123456789", SubSeq(s, 1, 1)))

\* the number of digits of s
digits_count(s) ==
    Cardinality({i \in 1..Len(s) : is_digit(SubSeq(s, i, i))})

\* the natural number the digits of s write: that of its first half,
\* moved left by the digits of the second, and that of the second
RECURSIVE nat_of_digits(_)
nat_of_halves(above, below) ==
    nat_add(nat_mul(nat_of_digits(above),
                    nat_power_of_ten(digits_count(below))),
            nat_of_digits(below))
nat_of_digits(s) ==
    IF Len(s) <= 1 THEN nat(find("123456789", s))
    ELSE nat_of_halves(SubSeq(s, 1, Len(s) \div 2),
                       SubSeq(s, Len(s) \div 2 + 1, Len(s)))

\* the sign a numeral starts with, and the numeral after it
sign_of(s) == IF s # "" /\ SubSeq(s, 1, 1) = "-" THEN -1 ELSE 1
unsigned(s) ==
    IF s # "" /\ SubSeq(s, 1, 1) \in {"+", "-"}
    THEN SubSeq(s, 2, Len(s)) ELSE s

\* int(s) for a str
int_of_str(s) ==
    LET body == unsigned(rstrip(lstrip(s)))
    IN IF is_digits(body)
       THEN PyInt(sign_of(lstrip(s)) * digits_value(body, 0))
       ELSE PyRaise("ValueError")

\* the float nearest to n * 10^x = n * 5^x * 2^x, n having no more than
\* count digits: what is 10^311 or more is an infinity, what is below
\* 10^-330 a zero
float_of_decimal(neg, n, count, x) ==
    IF n = <<>> THEN Float(neg, <<>>, 0)
    ELSE IF x > 310 THEN Infinity(neg)
    ELSE IF count + x < -330 THEN Float(neg, <<>>, 0)
    ELSE IF x >= 0
    THEN float_of_ratio([neg |-> neg, n |-> nat_mul(n, nat_power_of_five(x)),
                         d |-> <<1>>, e |-> x])
    ELSE float_of_ratio([neg |-> neg, n |-> n,
                         d |-> nat_power_of_five(0 - x), e |-> x])

\* the exponent a numeral ends with, kept within a million
RECURSIVE digits_value_within(_, _)
digits_value_within(s, acc) ==
    IF s = "" \/ acc >= 1000000 THEN acc
    ELSE digits_value_within(SubSeq(s, 2, Len(s)),
                             IF SubSeq(s, 1, 1) = "_" THEN acc
                             ELSE 10 * acc + find("123456789", SubSeq(s, 1, 1)))
exponent_of(s) == sign_of(s) * digits_value_within(unsigned(s), 0)

\* float of the digits whole and part around the period and the exponent x
float_of_digits(neg, whole, part, x) ==
    IF \/ whole = "" /\ part = ""
       \/ whole # "" /\ ~is_digits(whole)
       \/ part # "" /\ ~is_digits(part)
    THEN PyRaise("ValueError")
    ELSE float_of_decimal(neg, nat_of_digits(whole \o part),
                          digits_count(whole \o part),
                          x - digits_count(part))

\* ... of the mantissa with its period at the position dot, 0 for none
float_of_mantissa(neg, mantissa, dot, x) ==
    IF dot = 0 THEN float_of_digits(neg, mantissa, "", x)
    ELSE float_of_digits(neg, SubSeq(mantissa, 1, dot - 1),
                         SubSeq(mantissa, dot + 1, Len(mantissa)), x)

\* ... of the numeral with its exponent marker at the position e, 0 for none
float_of_numeral(neg, body, e) ==
    IF e = 0 THEN float_of_mantissa(neg, body, find(body, "."), 0)
    ELSE IF ~is_digits(unsigned(SubSeq(body, e + 1, Len(body))))
    THEN PyRaise("ValueError")
    ELSE float_of_mantissa(neg, SubSeq(body, 1, e - 1),
                           find(SubSeq(body, 1, e - 1), "."),
                           exponent_of(SubSeq(body, e + 1, Len(body))))

\* s is the word in lower case, whatever the case of its letters
is_word(s, word, upper) ==
    /\ Len(s) = Len(word)
    /\ \A i \in 1..Len(s) :
          SubSeq(s, i, i) \in {SubSeq(word, i, i), SubSeq(upper, i, i)}

\* the position of the first e or E of s, 0 when there is none
find_exponent(s) ==
    IF find(s, "e") = 0 THEN find(s, "E")
    ELSE IF find(s, "E") = 0 THEN find(s, "e")
    ELSE lesser(find(s, "e"), find(s, "E"))

\* ... of the text after the sign
float_of_body(neg, body) ==
    IF is_word(body, "inf", "INF") \/ is_word(body, "infinity", "INFINITY")
    THEN Infinity(neg)
    ELSE IF is_word(body, "nan", "NAN") THEN NaN
    ELSE float_of_numeral(neg, body, find_exponent(body))

\* float(s) for a str
float_of_stripped(s) == float_of_body(sign_of(s) = -1, unsigned(s))
float_of_str(s) == float_of_stripped(rstrip(lstrip(s)))

\* the whitespace up to U+00FF that \s of a regular expression matches
RegexSpaces == Spaces \o ""
\* s without the characters of chars at its ends
stripped_of(s, chars) ==
    IF \A i \in 1..Len(s) : find(chars, SubSeq(s, i, i)) > 0 THEN ""
    ELSE SubSeq(s,
                CHOOSE i \in 1..Len(s) :
                   /\ find(chars, SubSeq(s, i, i)) = 0
                   /\ \A j \in 1..(i - 1) : find(chars, SubSeq(s, j, j)) > 0,
                CHOOSE i \in 1..Len(s) :
                   /\ find(chars, SubSeq(s, i, i)) = 0
                   /\ \A j \in (i + 1)..Len(s) :
                         find(chars, SubSeq(s, j, j)) > 0)

\* Fraction(s) for num/denom: Fraction(num, 0) raises ZeroDivisionError
fraction_of_quotient(unit, num, denom) ==
    IF ~is_digits(num) \/ ~is_digits(denom) THEN PyRaise("ValueError")
    ELSE IF digits_value(denom, 0) = 0 THEN PyRaise("ZeroDivisionError")
    ELSE PyFraction(unit * digits_value(num, 0), digits_value(denom, 0))

\* ... for num.decimal with the exponent x: the digits of num and decimal
\* over 10^len(decimal), times 10^x
fraction_of_decimal(unit, num, decimal, x) ==
    IF \/ num = "" /\ decimal = ""
       \/ num # "" /\ ~is_digits(num)
       \/ decimal # "" /\ ~is_digits(decimal)
    THEN PyRaise("ValueError")
    ELSE IF x >= 0
    THEN PyFraction(unit * digits_value(num \o decimal, 0) * 10 ^ x,
                    10 ^ digits_count(decimal))
    ELSE PyFraction(unit * digits_value(num \o decimal, 0),
                    10 ^ (digits_count(decimal) - x))

\* ... for the mantissa with its period at the position dot, 0 for none
fraction_of_mantissa(unit, mantissa, dot, x) ==
    IF dot = 0 THEN fraction_of_decimal(unit, mantissa, "", x)
    ELSE fraction_of_decimal(unit, SubSeq(mantissa, 1, dot - 1),
                             SubSeq(mantissa, dot + 1, Len(mantissa)), x)

\* ... for the numeral with its exponent marker at the position e, 0 for
\* none
fraction_of_numeral(unit, body, e) ==
    IF e = 0 THEN fraction_of_mantissa(unit, body, find(body, "."), 0)
    ELSE IF ~is_digits(unsigned(SubSeq(body, e + 1, Len(body))))
    THEN PyRaise("ValueError")
    ELSE fraction_of_mantissa(unit, SubSeq(body, 1, e - 1),
                              find(SubSeq(body, 1, e - 1), "."),
                              exponent_of(SubSeq(body, e + 1, Len(body))))

\* ... for the text after the sign: num/denom, or a decimal numeral
fraction_of_body(unit, body, slash) ==
    IF slash > 0
    THEN fraction_of_quotient(unit, SubSeq(body, 1, slash - 1),
                              SubSeq(body, slash + 1, Len(body)))
    ELSE fraction_of_numeral(unit, body, find_exponent(body))

\* Fraction(s) for a str, by _RATIONAL_FORMAT: whitespace, a sign, and
\* digits/digits or a decimal numeral with an exponent
fraction_of_stripped(s) ==
    fraction_of_body(sign_of(s), unsigned(s), find(unsigned(s), "/"))
fraction_of_str(s) == fraction_of_stripped(stripped_of(s, RegexSpaces))

\* int(v) for a float: the integer towards zero
int_of_float(v) ==
    CASE v.kind = "inf" -> PyRaise("OverflowError")
      [] v.kind = "nan" -> PyRaise("ValueError")
      [] v.kind = "finite" /\ v.e >= 0 ->
            PyInt((IF v.neg THEN -1 ELSE 1) * nat_int(nat_shl(v.m, v.e)))
      [] v.kind = "finite" /\ v.e < 0 ->
            PyInt((IF v.neg THEN -1 ELSE 1) * nat_int(nat_shr(v.m, 0 - v.e)))

\* int(v)
int(v) ==
    CASE v.py = "int" -> v
      [] v.py = "float" -> int_of_float(v)
      [] v.py = "Fraction" ->
            PyInt((IF v.p < 0 THEN -1 ELSE 1) * (abs(v.p) \div v.q))
      [] v.py = "str" -> int_of_str(v.s)
      [] OTHER -> PyRaise("TypeError")

\* the value as the model holds a Python value where it holds no type: a
\* str and an int as they are, any other value with its type
py_raw(v) ==
    CASE v.py = "str" -> v.s
      [] v.py = "int" -> v.n
      [] OTHER -> v

\* the empty dict
EmptyDict == [k \in {} |-> Atom("NIL")]

\* dict(zip(names, values)): pairs are inserted in order, a later pair wins
DictOfZip(names, values) ==
    LET n == IF Len(names) < Len(values) THEN Len(names) ELSE Len(values)
        last(k) == CHOOSE i \in 1..n :
                      /\ names[i] = k
                      /\ \A j \in (i + 1)..n : names[j] # k
    IN [k \in {names[i] : i \in 1..n} |-> values[last(k)]]

\* {**a, **b}
DictMerge(a, b) ==
    [k \in DOMAIN a \cup DOMAIN b |-> IF k \in DOMAIN b THEN b[k] ELSE a[k]]

\* a dict whose keys are Python values of any type, kept as the sequence of
\* its items <<key, value>> in the order of the dict: key in mapping,
\* mapping[key] and mapping[key] = v, the keys compared as Python does
\* the places of the items whose key equals key: one at most
dict_places(items, key) == {i \in 1..Len(items) : is_or_eq(items[i][1], key)}
dict_has(items, key) == dict_places(items, key) # {}
dict_get(items, key) == items[CHOOSE i \in dict_places(items, key) : TRUE][2]
dict_put(items, key, v, places) ==
    IF places # {}
    THEN [i \in 1..Len(items) |->
             IF i \in places THEN <<items[i][1], v>> ELSE items[i]]
    ELSE Append(items, <<key, v>>)
dict_set(items, key, v) == dict_put(items, key, v, dict_places(items, key))

\* whether a Python value can be a key of a dict: an Amalgam is of a
\* dataclass with eq and without hash
hashable(v) == v.py # "object"

\* mapping[atom.value] = amalgam for the pairs of vals, after items; the
\* pairs are those the loop of _as_mapping goes through to its end, whose
\* keys are Atoms of a value that can be hashed (see mapping_of_pairs)
RECURSIVE dict_of_vals(_, _)
dict_of_vals(vals, items) ==
    IF vals = <<>> THEN items
    ELSE dict_of_vals(SubSeq(vals, 3, Len(vals)),
                      dict_set(items, value_of(vals[1]), vals[2]))

\* the pair at which the loop of _as_mapping ends before the last: the
\* first whose key is no Atom, or is an Atom whose value cannot be a key of
\* a dict; 0 where there is none
ends_loop(atom) == atom.t # "Atom" \/ ~hashable(value_of(atom))
loop_end(vals) ==
    IF \E i \in 1..(Len(vals) \div 2) : ends_loop(vals[2 * i - 1])
    THEN CHOOSE i \in 1..(Len(vals) \div 2) :
            /\ ends_loop(vals[2 * i - 1])
            /\ \A j \in 1..(i - 1) : ~ends_loop(vals[2 * j - 1])
    ELSE 0

\* the loop of _as_mapping on the pairs of vals, which ends at the pair
\* end: return {} at a key that is no Atom, and mapping[atom.value] raises
\* TypeError at a value that cannot be hashed
mapping_of_pairs(vals, end) ==
    IF end = 0 THEN dict_of_vals(vals, <<>>)
    ELSE IF vals[2 * end - 1].t # "Atom" THEN <<>>
    ELSE PyRaise("TypeError")

\* an _as_mapping that pairs the elements of a Vector of any length
_as_mapping_any_length(vals) ==
    mapping_of_pairs(SubSeq(vals, 1, 2 * (Len(vals) \div 2)), loop_end(vals))

\* Vector._as_mapping: the mapping view of a Vector's vals, the value of
\* each Atom at an even index being the key of the element after it
_as_mapping(vals) ==
    IF Len(vals) % 2 # 0 \/ Len(vals) = 0 THEN <<>>
    ELSE mapping_of_pairs(vals, loop_end(vals))

\* Vector(*vals) raises what _as_mapping raises
Vector_raises(vals) ==
    /\ Len(vals) % 2 = 0
    /\ loop_end(vals) # 0
    /\ vals[2 * loop_end(vals) - 1].t = "Atom"

\* Vector.__init__: the object with the attributes vals and mapping
Vector__init__(vals) ==
    IF Vector_raises(vals) THEN [k |-> "Exception", exc |-> "TypeError"]
    ELSE [k |-> "vector", vals |-> vals, mapping |-> _as_mapping(vals)]

(***************************************************************************)
(* Outcomes of a Python call: a returned value or a raised exception.      *)
(***************************************************************************)
Return(v) == [k |-> "value", v |-> v]
ReturnList(vs) == [k |-> "values", vs |-> vs]
Failure(amalgam, environment, message) ==
    [amalgam |-> amalgam, environment |-> environment, message |-> message]
RaiseFailure(f) == [k |-> "Failure", failure |-> f]
RaiseFailureStack(failures) == [k |-> "FailureStack", failures |-> failures]
RaiseInvalidContextError(environment) ==
    [k |-> "InvalidContextError", environment |-> environment]
\* any other Python exception (KeyError, TypeError, AttributeError, ...)
Raise(exc) == [k |-> "Exception", exc |-> exc]
\* return am.Vector(*vals)
ReturnVector(vals) ==
    IF Vector_raises(vals) THEN Raise("TypeError") ELSE Return(Vector(vals))
\* the evaluation made more than MaxSteps evaluate() calls
OutOfFuel == [k |-> "OutOfFuel"]

(***************************************************************************)
(* Environment (environment.py).  The heap of environments is a sequence;  *)
(* an Environment is referred to by its index, parent 0 is None.           *)
(***************************************************************************)
\* bindings holds the items of the dict whose key is a str; unnamed holds,
\* in the order of the dict, the items whose key is another Python value
Environment(bindings, parent, name, envs) ==
    [bindings |-> bindings,
     unnamed |-> <<>>,
     parent |-> parent,
     level |-> IF parent # 0 THEN envs[parent].level + 1 ELSE 0,
     search_depth |-> 0,
     name |-> name]   \* the parts of the name, to be concatenated

\* env_push that hangs every child on the global environment
env_push_global(envs, self, bindings, name) ==
    Append(envs, Environment(bindings, 1, name, envs))

\* Environment.env_push: the heap with the new child appended
env_push(envs, self, bindings, name) ==
    Append(envs, Environment(bindings, self, name, envs))

\* Environment.search_at: the depth check, entering and leaving the context
\* a search_at that accepts every depth
search_at_unchecked(envs, self, depth) == TRUE

\* search_at, lines 198-202: the depth must not exceed the level
search_at_valid(envs, self, depth) == depth <= envs[self].level
search_at_enter(envs, self, depth) == [envs EXCEPT ![self].search_depth = depth]
\* a search_at without the finally clause of lines 206-209
search_at_exit_skipped(envs, self) == envs

\* search_at, lines 206-209: finally self.search_depth = 0
search_at_exit(envs, self) == [envs EXCEPT ![self].search_depth = 0]

\* the environments that are inside a search_at with a depth other than 0
searching(envs) == {e \in DOMAIN envs : envs[e].search_depth # 0}

\* a lookup that always walks the whole chain
lookup_depth_unbounded(envs, self) == envs[self].level + 1

\* the number of scopes __getitem__, __delitem__ and __contains__ visit
lookup_depth(envs, self) ==
    IF envs[self].search_depth >= 0
    THEN envs[self].search_depth + 1
    ELSE envs[self].level + 1

RECURSIVE getitem_walk(_, _, _, _)
getitem_walk(envs, _self, item, n) ==
    IF n = 0 THEN Raise("KeyError")
    ELSE IF _self = 0 THEN Raise("AttributeError")
    ELSE IF item \in DOMAIN envs[_self].bindings
         THEN Return(envs[_self].bindings[item])
         ELSE getitem_walk(envs, envs[_self].parent, item, n - 1)

\* Environment.__getitem__
getitem(envs, self, item) ==
    getitem_walk(envs, self, item, lookup_depth(envs, self))

\* __setitem__ walking as many scopes as __getitem__
setitem_depth_as_getitem(envs, self) ==
    IF envs[self].search_depth >= 0
    THEN envs[self].search_depth + 1
    ELSE envs[self].level + 1

\* the number of scopes __setitem__ tests before it writes
setitem_depth(envs, self) ==
    IF envs[self].search_depth >= 0
    THEN envs[self].search_depth
    ELSE envs[self].level

\* _self.bindings[item] = value
bind_in(envs, _self, item, value) ==
    [envs EXCEPT ![_self].bindings =
        DictMerge(@, [k \in {item} |-> value])]

\* the environment __setitem__ writes to, 0 when the walk leaves the chain
RECURSIVE setitem_target(_, _, _, _)
setitem_target(envs, _self, item, n) ==
    IF _self = 0 THEN 0
    ELSE IF n = 0 THEN _self
    ELSE IF item \in DOMAIN envs[_self].bindings
         THEN _self
         ELSE setitem_target(envs, envs[_self].parent, item, n - 1)

\* __setitem__ that always writes to the immediate scope
setitem_shadow(envs, self, item, value) == bind_in(envs, self, item, value)

\* Environment.__setitem__: the heap after the assignment
setitem(envs, self, item, value) ==
    LET target == setitem_target(envs, self, item, setitem_depth(envs, self))
    IN IF target = 0 THEN envs ELSE bind_in(envs, target, item, value)

\* whether __setitem__ raises (it walked past the root)
setitem_raises(envs, self, item) ==
    setitem_target(envs, self, item, setitem_depth(envs, self)) = 0

\* the environment __delitem__ deletes from: 0 when no scope of the walk
\* binds item (KeyError), -1 when the walk leaves the chain
RECURSIVE delitem_target(_, _, _, _)
delitem_target(envs, _self, item, n) ==
    IF n = 0 THEN 0
    ELSE IF _self = 0 THEN -1
    ELSE IF item \in DOMAIN envs[_self].bindings
         THEN _self
         ELSE delitem_target(envs, envs[_self].parent, item, n - 1)

\* del _self.bindings[item]
unbind_in(envs, _self, item) ==
    [envs EXCEPT ![_self].bindings =
        [k \in (DOMAIN @) \ {item} |-> @[k]]]

\* Environment.__delitem__: the heap after the deletion
delitem(envs, self, item) ==
    LET target == delitem_target(envs, self, item, lookup_depth(envs, self))
    IN IF target > 0 THEN unbind_in(envs, target, item) ELSE envs

\* what __delitem__ raises, "" when it returns
delitem_raises(envs, self, item) ==
    LET target == delitem_target(envs, self, item, lookup_depth(envs, self))
    IN IF target = 0 THEN "KeyError"
       ELSE IF target = -1 THEN "AttributeError"
       ELSE ""

\* a bool returned to the host
ReturnBool(b) == [k |-> "bool", b |-> b]

RECURSIVE contains_walk(_, _, _, _)
contains_walk(envs, _self, item, n) ==
    IF n = 0 THEN ReturnBool(FALSE)
    ELSE IF _self = 0 THEN Raise("AttributeError")
    ELSE IF item \in DOMAIN envs[_self].bindings
         THEN ReturnBool(TRUE)
         ELSE contains_walk(envs, envs[_self].parent, item, n - 1)

\* Environment.__contains__
contains(envs, self, item) ==
    contains_walk(envs, self, item, lookup_depth(envs, self))

(***************************************************************************)
(* Function objects (amalgams.py, class Function).  fn is either one of    *)
(* the primordial callables wrapped by make_function (kind "primordial",   *)
(* named by name, with its allows list) or a closure_fn built by create_fn *)
(* (kind "closure_fn", with fargs and fbody).  env 0 is None.              *)
(***************************************************************************)
\* fargs holds the formals as Python holds them, fkeys with their types;
\* fname is the name the callable fn was made with, which tells the
\* primordials apart and which closure_fn closed over: Function.with_name
\* changes name and leaves fn, and so fname
FunctionObject(name, kind, fargs, fbody, allows, defer, contextual) ==
    [name |-> name, fname |-> name, kind |-> kind,
     fargs |-> [i \in 1..Len(fargs) |-> py_raw(fargs[i])],
     fkeys |-> fargs, fbody |-> fbody,
     allows |-> allows, defer |-> defer, contextual |-> contextual,
     env |-> 0, in_context |-> FALSE]

\* make_function: store[name] = Function(name, _func, defer, contextual)
make_function(name, defer, contextual, allows) ==
    FunctionObject(name, "primordial", <<>>, Atom("NIL"), allows,
                   defer, contextual)

\* the primordial functions of primordials.FUNCTIONS, in the order of their
\* index in the heap of Function objects
PRIMORDIALS ==
    << make_function("+", FALSE, FALSE, <<>>),
       make_function("=", FALSE, FALSE, <<>>),
       make_function("if", TRUE, FALSE, <<>>),
       make_function("do", TRUE, FALSE, <<>>),
       make_function("return", FALSE, TRUE, <<>>),
       make_function("break", FALSE, TRUE, <<>>),
       make_function("loop", TRUE, FALSE, <<"break", "return">>),
       make_function("setn", TRUE, FALSE, <<>>),
       make_function("setr", TRUE, FALSE, <<>>),
       make_function("unquote", FALSE, FALSE, <<>>),
       make_function("fn", TRUE, FALSE, <<>>),
       make_function("and", TRUE, FALSE, <<>>),
       make_function("let", TRUE, FALSE, <<>>),
       make_function("-", FALSE, FALSE, <<>>),
       make_function("*", FALSE, FALSE, <<>>),
       make_function("/", FALSE, FALSE, <<>>),
       make_function("bool", FALSE, FALSE, <<>>),
       make_function("not", FALSE, FALSE, <<>>),
       make_function("or", TRUE, FALSE, <<>>),
       make_function(">", FALSE, FALSE, <<>>),
       make_function("<", FALSE, FALSE, <<>>),
       make_function("/=", FALSE, FALSE, <<>>),
       make_function(">=", FALSE, FALSE, <<>>),
       make_function("<=", FALSE, FALSE, <<>>),
       make_function("when", TRUE, FALSE, <<>>),
       make_function("cond", TRUE, FALSE, <<>>),
       make_function("print", FALSE, FALSE, <<>>),
       make_function("putstrln", FALSE, FALSE, <<>>),
       make_function("exit", FALSE, FALSE, <<>>),
       make_function("eval", FALSE, FALSE, <<>>),
       make_function("mkfn", TRUE, FALSE, <<>>),
       make_function("macro", TRUE, FALSE, <<>>),
       make_function("merge", FALSE, FALSE, <<>>),
       make_function("slice", FALSE, FALSE, <<>>),
       make_function("at", FALSE, FALSE, <<>>),
       make_function("remove", FALSE, FALSE, <<>>),
       make_function("len", FALSE, FALSE, <<>>),
       make_function("cons", FALSE, FALSE, <<>>),
       make_function("snoc", FALSE, FALSE, <<>>),
       make_function("is-map", FALSE, FALSE, <<>>),
       make_function("map-in", FALSE, FALSE, <<>>),
       make_function("map-at", FALSE, FALSE, <<>>),
       make_function("map-up", FALSE, FALSE, <<>>) >>

\* primordials.FUNCTIONS: name -> Function
FUNCTIONS ==
    [n \in {PRIMORDIALS[i].name : i \in 1..Len(PRIMORDIALS)} |->
        Function(CHOOSE i \in 1..Len(PRIMORDIALS) : PRIMORDIALS[i].name = n)]

\* Function.bind: self.env = environment
bind(fns, f, environment) == [fns EXCEPT ![f].env = environment]

\* a call that keeps the caller's environment
call_environment_caller(self, environment) == environment

\* Function.call, lines 397-398: a bound env overrides the caller's
call_environment(self, environment) ==
    IF self.env # 0 THEN self.env ELSE environment

\* a call that evaluates the arguments of every function
deferred_never(self) == FALSE

\* Function.call, line 404: the arguments are passed as they are
deferred(self) == self.defer

\* a call that never tests the context
call_refused_never(self) == FALSE

\* Function.call, line 400: the call is refused
call_refused(self) == self.contextual /\ ~self.in_context

(***************************************************************************)
(* The evaluator.  An evaluation threads a record st through the calls:    *)
(*   envs, fns   the two heaps                                             *)
(*   res         the outcome of the call that just finished                *)
(*   fuel        evaluate() calls left                                     *)
(*   log         history of the evaluation: evaluate() entries and exits,  *)
(*               Function.call entries, argument evaluations and           *)
(*               invocations of the underlying callables                   *)
(*   calls       number of Function.call entries so far                    *)
(*   depth       nesting depth of evaluate()                               *)
(*   loops       number of _loop invocations in progress                   *)
(***************************************************************************)
IsValue(st) == st.res.k = "value"

\* an outcome from a Python value: the Numeric of a number, or what it raised
ReturnNumeric(v) == IF v.py = "raise" THEN Raise(v.exc) ELSE Return(NumericOf(v))
\* an outcome from a comparison
ReturnAtom(v) ==
    IF v.py = "raise" THEN Raise(v.exc)
    ELSE Return(IF v.b THEN Atom("TRUE") ELSE Atom("FALSE"))

\* for n in values: acc = acc op n; a value that could not be read, or an
\* operation that raises, ends the loop
RECURSIVE accumulate(_, _, _)
accumulate(op, acc, values) ==
    IF values = <<>> THEN acc
    ELSE IF Head(values).py = "raise" THEN Head(values)
    ELSE LET r == py_binop(op, acc, Head(values))
         IN IF r.py = "raise" THEN r ELSE accumulate(op, r, Tail(values))

\* num.value for num in nums
values_of(nums) == [i \in 1..Len(nums) |-> value_of(nums[i])]

\* x, *ns = (num.value for num in nums): what the unpacking raises, "" when
\* it binds x and ns
unpack_raises(nums) ==
    IF \E i \in 1..Len(nums) : value_of(nums[i]).py = "raise"
    THEN "AttributeError"
    ELSE IF Len(nums) = 0 THEN "ValueError"
    ELSE ""

\* _add: sum(num.value for num in nums)
_add(nums) == ReturnNumeric(accumulate("+", PyInt(0), values_of(nums)))

\* _sub
_sub(nums) ==
    IF unpack_raises(nums) # "" THEN Raise(unpack_raises(nums))
    ELSE LET y == accumulate("+", PyInt(0), Tail(values_of(nums)))
         IN IF y.py = "raise" THEN Raise(y.exc)
            ELSE ReturnNumeric(py_binop("-", value_of(nums[1]), y))

\* _mul
_mul(nums) == ReturnNumeric(accumulate("*", PyInt(1), values_of(nums)))

\* _div
_div(nums) ==
    IF unpack_raises(nums) # "" THEN Raise(unpack_raises(nums))
    ELSE LET y == accumulate("*", PyInt(1), Tail(values_of(nums)))
         IN IF y.py = "raise" THEN Raise(y.exc)
            ELSE ReturnNumeric(py_binop("/", value_of(nums[1]), y))

\* bool(expr) of primordials/boolean.py
_bool(expr) ==
    IF \E falsy \in {String(""), Numeric(0), Vector(<<>>), Atom("FALSE"),
                      Atom("NIL")} : amalgam_eq(expr, falsy)
    THEN Atom("FALSE")
    ELSE Atom("TRUE")

\* _not
_not(expr) == IF _bool(expr) = Atom("TRUE") THEN Atom("FALSE") ELSE Atom("TRUE")

\* the outcomes of _bool and _not called as functions
bool(expr) == Return(_bool(expr))
not(expr) == Return(_not(expr))

\* _gt, _lt, _ge, _le
_gt(x, y) == ReturnAtom(amalgam_lt(y, x))
_lt(x, y) == ReturnAtom(amalgam_lt(x, y))
_ge(x, y) == ReturnAtom(amalgam_le(y, x))
_le(x, y) == ReturnAtom(amalgam_le(x, y))

\* _eq
_eq(args) ==
    IF Len(args) # 2 THEN Raise("TypeError")
    ELSE Return(IF amalgam_eq(args[1], args[2])
                THEN Atom("TRUE") ELSE Atom("FALSE"))

\* _ne
_ne(x, y) == Return(IF amalgam_eq(x, y) THEN Atom("FALSE") ELSE Atom("TRUE"))

\* func(env, *arguments) for a func of one positional parameter
call1(F(_), args) ==
    IF Len(args) # 1 THEN Raise("TypeError") ELSE F(args[1])
\* ... of two
call2(F(_, _), args) ==
    IF Len(args) # 2 THEN Raise("TypeError") ELSE F(args[1], args[2])
\* ... of three
call3(F(_, _, _), args) ==
    IF Len(args) # 3 THEN Raise("TypeError")
    ELSE F(args[1], args[2], args[3])

\* iter(amalgam) is defined: SExpression and Vector have __iter__
iterable(amalgam) == amalgam.t \in {"SExpression", "Vector"}

\* vals[index] of a tuple or list for a Python value index
subscript(vals, index) ==
    IF index.py # "int" THEN Raise("TypeError")
    ELSE LET n == Len(vals)
             i == IF index.n < 0 THEN index.n + n ELSE index.n
         IN IF i < 0 \/ i >= n THEN Raise("IndexError")
            ELSE Return(vals[i + 1])

\* the indices start, start + step, ... before stop (after it, step < 0)
RECURSIVE slice_range(_, _, _, _)
slice_range(vals, start, stop, step) ==
    IF (step > 0 /\ start >= stop) \/ (step < 0 /\ start <= stop) THEN <<>>
    ELSE <<vals[start + 1]>> \o slice_range(vals, start + step, stop, step)

\* an index of a slice brought into lower..upper
slice_index(i, n, lower, upper) ==
    LET j == IF i < 0 THEN i + n ELSE i
    IN IF j < lower THEN lower ELSE IF j > upper THEN upper ELSE j

\* vals[start:stop:step] for ints, step # 0
slice_vals(vals, start, stop, step) ==
    LET n == Len(vals)
    IN IF step > 0
       THEN slice_range(vals, slice_index(start, n, 0, n),
                        slice_index(stop, n, 0, n), step)
       ELSE slice_range(vals, slice_index(start, n, -1, n - 1),
                        slice_index(stop, n, -1, n - 1), step)

\* chain.from_iterable(vectors), consumed by Vector(*...)
RECURSIVE chain_vals(_)
chain_vals(vectors) ==
    IF vectors = <<>> THEN Return(<<>>)
    ELSE IF ~iterable(Head(vectors)) THEN Raise("TypeError")
    ELSE LET rest == chain_vals(Tail(vectors))
         IN IF rest.k # "value" THEN rest
            ELSE Return(Head(vectors).vals \o rest.v)

\* vals += (am.Atom(name), value) for name, value in mapping.items()
RECURSIVE vals_of_items(_)
vals_of_items(items) ==
    IF items = <<>> THEN <<>>
    ELSE <<AtomOf(Head(items)[1]), Head(items)[2]>>
            \o vals_of_items(Tail(items))

\* _merge
_merge(vectors) ==
    LET vals == chain_vals(vectors)
    IN IF vals.k # "value" THEN vals ELSE ReturnVector(vals.v)

\* _slice: the slice object takes its step, its start and its stop in turn
_slice(vector, start, stop, step) ==
    IF ~iterable(vector) THEN Raise("AttributeError")
    ELSE IF \/ value_of(start).py = "raise"
            \/ value_of(stop).py = "raise"
            \/ value_of(step).py = "raise"
         THEN Raise("AttributeError")
    ELSE IF value_of(step).py # "int" THEN Raise("TypeError")
    ELSE IF value_of(step).n = 0 THEN Raise("ValueError")
    ELSE IF value_of(start).py # "int" \/ value_of(stop).py # "int"
         THEN Raise("TypeError")
    ELSE ReturnVector(slice_vals(vector.vals, value_of(start).n,
                                 value_of(stop).n, value_of(step).n))

\* _at
_at(index, vector) ==
    IF ~iterable(vector) THEN Raise("AttributeError")
    ELSE IF value_of(index).py = "raise" THEN Raise("AttributeError")
    ELSE subscript(vector.vals, value_of(index))

\* _remove: del vals[index.value]
_remove(index, vector) ==
    IF ~iterable(vector) THEN Raise("TypeError")
    ELSE IF value_of(index).py = "raise" THEN Raise("AttributeError")
    ELSE LET found == subscript(vector.vals, value_of(index))
             n == Len(vector.vals)
             i == IF value_of(index).n < 0 THEN value_of(index).n + n
                  ELSE value_of(index).n
         IN IF found.k # "value" THEN found
            ELSE ReturnVector([j \in 1..(n - 1) |->
                    IF j <= i THEN vector.vals[j] ELSE vector.vals[j + 1]])

\* _len
_len(vector) ==
    IF ~iterable(vector) THEN Raise("TypeError")
    ELSE Return(Numeric(Len(vector.vals)))

\* _cons
_cons(amalgam, vector) ==
    IF ~iterable(vector) THEN Raise("TypeError")
    ELSE ReturnVector(<<amalgam>> \o vector.vals)

\* _snoc
_snoc(vector, amalgam) ==
    IF ~iterable(vector) THEN Raise("TypeError")
    ELSE ReturnVector(Append(vector.vals, amalgam))

\* _is_map
_is_map(vector) ==
    IF vector.t # "Vector" THEN Raise("AttributeError")
    ELSE Return(IF _as_mapping(vector.vals) # <<>>
                THEN Atom("TRUE") ELSE Atom("FALSE"))

\* what _map_in, _map_at and _map_up raise before they use the mapping,
\* "" when they go on
map_raises(vector, atom, mapping) ==
    IF vector.t # "Vector" THEN "AttributeError"
    ELSE IF mapping = <<>> THEN "ValueError"
    ELSE IF value_of(atom).py = "raise" THEN "AttributeError"
    ELSE IF ~hashable(value_of(atom)) THEN "TypeError"
    ELSE ""

\* the primordials of a Vector that is a map, by what is raised before
\* vector.mapping is used, by vector.mapping and by the places of the items
\* of atom.value in it; name is that of the primordial
map_used(name, atom, amalgam, mapping, places) ==
    CASE name = "map-in" ->
            Return(IF places # {} THEN Atom("TRUE") ELSE Atom("FALSE"))
      [] name = "map-at" ->
            IF places = {} THEN Raise("KeyError")
            ELSE Return(mapping[CHOOSE i \in places : TRUE][2])
      [] name = "map-up" ->
            Return(Vector(vals_of_items(
                dict_put(mapping, value_of(atom), amalgam, places))))
map_checked(name, atom, amalgam, raises, mapping) ==
    IF raises # "" THEN Raise(raises)
    ELSE map_used(name, atom, amalgam, mapping,
                  dict_places(mapping, value_of(atom)))
map_primordial(name, vector, atom, amalgam, mapping) ==
    map_checked(name, atom, amalgam, map_raises(vector, atom, mapping),
                mapping)

\* _map_in
_map_in(vector, atom) ==
    map_primordial("map-in", vector, atom, atom, _as_mapping(vector.vals))

\* _map_at
_map_at(vector, atom) ==
    map_primordial("map-at", vector, atom, atom, _as_mapping(vector.vals))

\* _map_up
_map_up(vector, atom, amalgam) ==
    map_primordial("map-up", vector, atom, amalgam, _as_mapping(vector.vals))

\* _return
_return(args) ==
    IF Len(args) # 1 THEN Raise("TypeError")
    ELSE Return(Vector(<<Atom("payload"), args[1]>>))

\* _break
_break(args) ==
    IF Len(args) # 0 THEN Raise("TypeError")
    ELSE Return(Vector(<<Atom("payload"), Atom("NIL")>>))

\* _unquote
_unquote(args) ==
    IF Len(args) # 1 THEN Raise("TypeError")
    ELSE IF args[1].t # "Quoted" THEN Raise("TypeError")
    ELSE Return(args[1].quoted)

\* _loop, lines 93-96: result.mapping["payload"] is there
has_payload(result) ==
    /\ result.t = "Vector"
    /\ dict_has(_as_mapping(result.vals), PyStr("payload"))

\* a wrapper that re-raises a FailureStack as it is
evaluate_wrapper_silent(self, environment, res) ==
    CASE res.k = "Failure" -> RaiseFailureStack(<<res.failure>>)
      [] OTHER -> res

\* the AmalgamMeta wrapper around every evaluate, lines 192-200
evaluate_wrapper(self, environment, res) ==
    CASE res.k = "Failure" -> RaiseFailureStack(<<res.failure>>)
      [] res.k = "FailureStack" ->
            RaiseFailureStack(
                Append(res.failures, Failure(self, environment, "inherited")))
      [] OTHER -> res

\* bindings whose &rest takes every argument after the leading formals
closure_bindings_greedy(fargs, arguments) ==
    IF \E i \in 1..Len(fargs) : fargs[i] = "&rest"
    THEN LET l_count == (CHOOSE i \in 1..Len(fargs) :
                            /\ fargs[i] = "&rest"
                            /\ \A j \in 1..(i - 1) : fargs[j] # "&rest") - 1
             r_count == Len(fargs) - l_count - 1
             n == Len(arguments)
             lo == IF l_count < n THEN l_count ELSE n
             rs == IF n - r_count > 0 THEN n - r_count ELSE 0
             l_names == DictOfZip(SubSeq(fargs, 1, l_count),
                                  SubSeq(arguments, 1, lo))
             r_names == DictOfZip(
                           SubSeq(fargs, Len(fargs) - r_count + 1, Len(fargs)),
                           SubSeq(arguments, rs + 1, n))
             m_name == [k \in {"&rest"} |->
                           Vector(SubSeq(arguments, lo + 1, n))]
         IN DictMerge(DictMerge(l_names, m_name), r_names)
    ELSE DictOfZip(fargs, arguments)

\* create_fn.closure_fn, lines 641-656: the bindings of the call
closure_bindings(fargs, arguments) ==
    IF \E i \in 1..Len(fargs) : fargs[i] = "&rest"
    THEN LET l_count == (CHOOSE i \in 1..Len(fargs) :
                            /\ fargs[i] = "&rest"
                            /\ \A j \in 1..(i - 1) : fargs[j] # "&rest") - 1
             r_count == Len(fargs) - l_count - 1
             n == Len(arguments)
             \* arguments[:l_count], arguments[l_count:]
             lo == IF l_count < n THEN l_count ELSE n
             l_names == DictOfZip(SubSeq(fargs, 1, l_count),
                                  SubSeq(arguments, 1, lo))
         IN IF r_count = 0
            THEN DictMerge(l_names,
                     [k \in {"&rest"} |-> Vector(SubSeq(arguments, lo + 1, n))])
            ELSE LET \* arguments[-r_count:], arguments[l_count:-r_count]
                     rs == IF n - r_count > 0 THEN n - r_count ELSE 0
                     r_names == DictOfZip(
                                   SubSeq(fargs, Len(fargs) - r_count + 1,
                                          Len(fargs)),
                                   SubSeq(arguments, rs + 1, n))
                     m_name == [k \in {"&rest"} |->
                                   Vector(SubSeq(arguments, lo + 1, rs))]
                 IN DictMerge(DictMerge(l_names, m_name), r_names)
    ELSE DictOfZip(fargs, arguments)

\* lines 648 and 651: the arguments the Vector bound to &rest is made of,
\* arguments[l_count:] or arguments[l_count:-r_count]
rest_arguments(fargs, arguments) ==
    IF \E i \in 1..Len(fargs) : fargs[i] = "&rest"
    THEN LET l_count == (CHOOSE i \in 1..Len(fargs) :
                            /\ fargs[i] = "&rest"
                            /\ \A j \in 1..(i - 1) : fargs[j] # "&rest") - 1
             r_count == Len(fargs) - l_count - 1
             n == Len(arguments)
         IN SubSeq(arguments, l_count + 1,
                   IF n - r_count > 0 THEN n - r_count ELSE 0)
    ELSE <<>>

\* [arg.value for arg in args] of _fn and _macro: the value of a formal
arg_value(arg) == value_of(arg)

\* entries of the history
LogEvaluate(node, environment, depth) ==
    [op |-> "evaluate", node |-> node, env |-> environment, depth |-> depth]
LogResult(node, environment, depth, res) ==
    [op |-> "result", node |-> node, env |-> environment, depth |-> depth,
     res |-> res]
LogCall(cid, f, self, caller, environment, arguments, loops) ==
    [op |-> "call", cid |-> cid, fn |-> f, name |-> self.name,
     caller |-> caller, env |-> environment, bound |-> self.env,
     contextual |-> self.contextual, in_context |-> self.in_context,
     defer |-> self.defer, arguments |-> arguments, loops |-> loops]
LogArgument(cid, i, node, environment) ==
    [op |-> "argument", cid |-> cid, index |-> i, node |-> node,
     env |-> environment]
LogInvoke(cid, f, environment, args, envs) ==
    [op |-> "invoke", cid |-> cid, fn |-> f, env |-> environment,
     args |-> args, searching |-> searching(envs)]
LogPush(cl_env, environment, bindings, unnamed, envs) ==
    [op |-> "push", env |-> cl_env, parent |-> environment,
     bindings |-> bindings, unnamed |-> unnamed,
     searching |-> searching(envs)]
\* print(object): an Amalgam, or a str
LogPrint(object) == [op |-> "print", object |-> object]
\* sys.exit(code)
LogExit(code) == [op |-> "exit", code |-> code]

RECURSIVE evaluate(_, _, _)
RECURSIVE evaluate_vals(_, _, _, _, _)
RECURSIVE evaluate_arguments(_, _, _, _, _, _)
RECURSIVE call(_, _, _, _)
RECURSIVE fn_invoke(_, _, _, _)
RECURSIVE loop_body(_, _, _, _)
RECURSIVE do_body(_, _, _, _, _)
RECURSIVE and_body(_, _, _, _)
RECURSIVE or_body(_, _, _, _)
RECURSIVE cond_body(_, _, _, _)
RECURSIVE _func(_, _, _, _)
RECURSIVE evaluate_vals_keep_going(_, _, _, _, _)
RECURSIVE evaluate_arguments_keep_going(_, _, _, _, _, _)

\* a Symbol.evaluate that looks the name up at the environment's own depth
Symbol_evaluate_own_depth(self, environment, st) ==
    LET found == getitem(st.envs, environment, self.sym)
    IN [st EXCEPT
          !.envs = search_at_exit(st.envs, environment),
          !.res = IF found.k = "Exception" /\ found.exc = "KeyError"
                  THEN RaiseFailure(
                           Failure(self, environment, "unbound symbol"))
                  ELSE found]

\* Symbol.evaluate
Symbol_evaluate(self, environment, st) ==
    LET entered == search_at_enter(st.envs, environment, -1)
        found == getitem(entered, environment, self.sym)
        left == search_at_exit(entered, environment)
    IN [st EXCEPT
          !.envs = left,
          !.res = IF found.k = "Exception" /\ found.exc = "KeyError"
                  THEN RaiseFailure(
                           Failure(self, environment, "unbound symbol"))
                  ELSE found]

\* a failure that names the head expression instead of its value
not_a_callable_node(func, head, environment) ==
    RaiseFailureStack(<<Failure(func, environment, "not a callable")>>)

\* SExpression.evaluate, line 469: the head is not a Function
not_a_callable(func, head, environment) ==
    RaiseFailureStack(<<Failure(head, environment, "not a callable")>>)

\* SExpression.evaluate, lines 464-467: InvalidContextError becomes a
\* FailureStack on the head expression
invalid_context(func, s2) ==
    IF s2.res.k = "InvalidContextError"
    THEN [s2 EXCEPT !.res = RaiseFailureStack(
             <<Failure(func, s2.res.environment, "invalid context")>>)]
    ELSE s2

\* SExpression.evaluate, once the head has been evaluated in s1
apply_head(func, args, environment, s1) ==
    IF ~IsValue(s1) THEN s1
    ELSE IF s1.res.v.t = "Function"
         THEN invalid_context(func,
                 call(s1.res.v.id, environment, args, s1))
         ELSE [s1 EXCEPT !.res =
                 not_a_callable(func, s1.res.v, environment)]

\* SExpression.evaluate
SExpression_evaluate(self, environment, st) ==
    IF Len(self.vals) = 0
    THEN [st EXCEPT !.res = Raise("IndexError")]
    ELSE apply_head(self.vals[1], Tail(self.vals), environment,
                    evaluate(self.vals[1], environment, st))

\* Vector.evaluate
Vector_evaluate(self, environment, st) ==
    LET s1 == evaluate_vals(self.vals, 1, environment, st, <<>>)
    IN IF s1.res.k = "values"
       THEN [s1 EXCEPT !.res = ReturnVector(s1.res.vs)]
       ELSE s1

\* an evaluation of the items that goes on after a failure
evaluate_vals_keep_going(vals, i, environment, st, acc) ==
    IF i > Len(vals) THEN [st EXCEPT !.res = ReturnList(acc)]
    ELSE LET s1 == evaluate(vals[i], environment, st)
         IN IF ~IsValue(s1)
            THEN [evaluate_vals_keep_going(vals, i + 1, environment, s1, acc)
                     EXCEPT !.res = s1.res]
            ELSE evaluate_vals_keep_going(vals, i + 1, environment, s1,
                                          Append(acc, s1.res.v))

\* val.evaluate(environment) for val in self.vals, in order
evaluate_vals(vals, i, environment, st, acc) ==
    IF i > Len(vals) THEN [st EXCEPT !.res = ReturnList(acc)]
    ELSE LET s1 == evaluate(vals[i], environment, st)
         IN IF ~IsValue(s1) THEN s1
            ELSE evaluate_vals(vals, i + 1, environment, s1,
                               Append(acc, s1.res.v))

\* a Quoted whose evaluate evaluates the expression it holds
class_evaluate_unquoting(self, environment, st) ==
    CASE self.t = "Symbol" -> Symbol_evaluate(self, environment, st)
      [] self.t = "SExpression" -> SExpression_evaluate(self, environment, st)
      [] self.t = "Vector" -> Vector_evaluate(self, environment, st)
      [] self.t = "Quoted" -> evaluate(self.quoted, environment, st)
      [] OTHER -> [st EXCEPT !.res = Return(self)]

\* the evaluate of each class, before the AmalgamMeta wrapper
class_evaluate(self, environment, st) ==
    CASE self.t = "Symbol" -> Symbol_evaluate(self, environment, st)
      [] self.t = "SExpression" -> SExpression_evaluate(self, environment, st)
      [] self.t = "Vector" -> Vector_evaluate(self, environment, st)
      [] OTHER -> [st EXCEPT !.res = Return(self)]

\* the wrapper of AmalgamMeta once the class's evaluate has ended in s1
evaluate_leave(self, environment, depth, s1) ==
    LET res == evaluate_wrapper(self, environment, s1.res)
    IN [s1 EXCEPT
          !.res = res,
          !.depth = depth,
          !.log = Append(@, LogResult(self, environment, depth + 1, res))]

\* Amalgam.evaluate as the metaclass builds it
evaluate(self, environment, st) ==
    IF st.fuel = 0 THEN [st EXCEPT !.res = OutOfFuel]
    ELSE evaluate_leave(self, environment, st.depth,
            class_evaluate(self, environment,
               [st EXCEPT
                  !.fuel = @ - 1,
                  !.depth = @ + 1,
                  !.log = Append(@, LogEvaluate(self, environment,
                                                st.depth + 1))]))

\* an evaluation of the arguments that goes on after a failure
evaluate_arguments_keep_going(cid, arguments, i, environment, st, acc) ==
    IF i > Len(arguments) THEN [st EXCEPT !.res = ReturnList(acc)]
    ELSE LET s0 == [st EXCEPT !.log = Append(@,
                       LogArgument(cid, i, arguments[i], environment))]
             s1 == evaluate(arguments[i], environment, s0)
         IN IF ~IsValue(s1)
            THEN [evaluate_arguments_keep_going(cid, arguments, i + 1,
                                                environment, s1, acc)
                     EXCEPT !.res = s1.res]
            ELSE evaluate_arguments_keep_going(cid, arguments, i + 1,
                                               environment, s1,
                                               Append(acc, s1.res.v))

\* Function.call, lines 403-406, for defer = False
evaluate_arguments(cid, arguments, i, environment, st, acc) ==
    IF i > Len(arguments) THEN [st EXCEPT !.res = ReturnList(acc)]
    ELSE LET s0 == [st EXCEPT !.log = Append(@,
                       LogArgument(cid, i, arguments[i], environment))]
             s1 == evaluate(arguments[i], environment, s0)
         IN IF ~IsValue(s1) THEN s1
            ELSE evaluate_arguments(cid, arguments, i + 1, environment, s1,
                                    Append(acc, s1.res.v))

\* Function.call
call(f, caller, arguments, st) ==
    LET self == st.fns[f]
        environment == call_environment(self, caller)
        cid == st.calls + 1
        s0 == [st EXCEPT
                 !.calls = cid,
                 !.log = Append(@, LogCall(cid, f, self, caller, environment,
                                           arguments, st.loops))]
    IN IF call_refused(self)
       THEN [s0 EXCEPT !.res = RaiseInvalidContextError(environment)]
       ELSE LET s1 == IF deferred(self)
                      THEN [s0 EXCEPT !.res = ReturnList(arguments)]
                      ELSE evaluate_arguments(cid, arguments, 1, environment,
                                              s0, <<>>)
            IN IF s1.res.k # "values" THEN s1
               ELSE fn_invoke(f, environment, s1.res.vs,
                        [s1 EXCEPT !.log = Append(@,
                            LogInvoke(cid, f, environment, s1.res.vs,
                                      s1.envs))])

\* _if
_if(env, args, st) ==
    IF Len(args) # 3 THEN [st EXCEPT !.res = Raise("TypeError")]
    ELSE LET s1 == evaluate(args[1], env, st)
         IN IF ~IsValue(s1) THEN s1
            ELSE IF _bool(s1.res.v) = Atom("TRUE")
                 THEN evaluate(args[2], env, s1)
                 ELSE evaluate(args[3], env, s1)

\* _do, the for loop: accumulator = expr.evaluate(env)
do_body(exprs, i, env, st, accumulator) ==
    IF i > Len(exprs) THEN [st EXCEPT !.res = Return(accumulator)]
    ELSE LET s1 == evaluate(exprs[i], env, st)
         IN IF ~IsValue(s1) THEN s1
            ELSE do_body(exprs, i + 1, env, s1, s1.res.v)

\* _do
_do(env, exprs, st) == do_body(exprs, 1, env, st, Atom("NIL"))

\* _and, the for loop: cond = _bool(env, expr.evaluate(env))
and_body(exprs, i, env, st) ==
    IF i > Len(exprs) THEN [st EXCEPT !.res = Return(Atom("TRUE"))]
    ELSE LET s1 == evaluate(exprs[i], env, st)
         IN IF ~IsValue(s1) THEN s1
            ELSE IF _bool(s1.res.v) = Atom("FALSE")
                 THEN [s1 EXCEPT !.res = Return(Atom("FALSE"))]
                 ELSE and_body(exprs, i + 1, env, s1)

\* _and
_and(env, exprs, st) == and_body(exprs, 1, env, st)

\* _or, the for loop
or_body(exprs, i, env, st) ==
    IF i > Len(exprs) THEN [st EXCEPT !.res = Return(Atom("FALSE"))]
    ELSE LET s1 == evaluate(exprs[i], env, st)
         IN IF ~IsValue(s1) THEN s1
            ELSE IF _bool(s1.res.v) = Atom("TRUE")
                 THEN [s1 EXCEPT !.res = Return(Atom("TRUE"))]
                 ELSE or_body(exprs, i + 1, env, s1)

\* _or
_or(env, exprs, st) == or_body(exprs, 1, env, st)

\* _when
_when(env, args, st) ==
    IF Len(args) # 2 THEN [st EXCEPT !.res = Raise("TypeError")]
    ELSE LET s1 == evaluate(args[1], env, st)
         IN IF ~IsValue(s1) THEN s1
            ELSE IF _bool(s1.res.v) = Atom("TRUE")
                 THEN evaluate(args[2], env, s1)
                 ELSE [s1 EXCEPT !.res = Return(Atom("NIL"))]

\* _cond, the for loop: pred, expr = pair
cond_body(pairs, i, env, st) ==
    IF i > Len(pairs) THEN [st EXCEPT !.res = Return(Atom("NIL"))]
    ELSE IF ~iterable(pairs[i]) THEN [st EXCEPT !.res = Raise("TypeError")]
    ELSE IF Len(pairs[i].vals) # 2
         THEN [st EXCEPT !.res = Raise("ValueError")]
    ELSE LET s1 == evaluate(pairs[i].vals[1], env, st)
         IN IF ~IsValue(s1) THEN s1
            ELSE IF _bool(s1.res.v) = Atom("TRUE")
                 THEN evaluate(pairs[i].vals[2], env, s1)
                 ELSE cond_body(pairs, i + 1, env, s1)

\* _cond
_cond(env, pairs, st) == cond_body(pairs, 1, env, st)

\* _eval
_eval(env, args, st) ==
    IF Len(args) # 1 THEN [st EXCEPT !.res = Raise("TypeError")]
    ELSE evaluate(IF args[1].t = "Quoted" THEN args[1].quoted ELSE args[1],
                  env, st)

\* _print: print(amalgam)
_print(env, args, st) ==
    IF Len(args) # 1 THEN [st EXCEPT !.res = Raise("TypeError")]
    ELSE [st EXCEPT !.log = Append(@, LogPrint(args[1])),
                    !.res = Return(args[1])]

\* _putstrln: print(string.value)
_putstrln(env, args, st) ==
    IF Len(args) # 1 THEN [st EXCEPT !.res = Raise("TypeError")]
    ELSE IF args[1].t # "String" THEN [st EXCEPT !.res = Raise("TypeError")]
    ELSE [st EXCEPT !.log = Append(@, LogPrint(value_of(args[1]))),
                    !.res = Return(args[1])]

\* int(exit_code.value), or the exception it raises
int_or_raise(v) == IF v.py = "raise" THEN v ELSE int(v)
exit_value(exit_code) == int_or_raise(value_of(exit_code))

\* _exit lines 37-38 with the exit code, or with what its conversion raised
exited(code, st) ==
    [st EXCEPT
       !.log = IF code.py = "raise"
               THEN Append(@, LogPrint(PyStr("Goodbye.")))
               ELSE Append(Append(@, LogPrint(PyStr("Goodbye."))),
                           LogExit(code.n)),
       !.res = IF code.py = "raise" THEN Raise(code.exc)
               ELSE Raise("SystemExit")]

\* _exit: print("Goodbye."), then sys.exit(int(exit_code.value))
_exit(env, args, st) ==
    IF Len(args) > 1 THEN [st EXCEPT !.res = Raise("TypeError")]
    ELSE exited(exit_value(IF Len(args) = 1 THEN args[1] ELSE Numeric(0)),
                st)

\* _loop, the while True / for expr in exprs loops
loop_body(exprs, i, env, st) ==
    IF st.fuel = 0 \/ Len(exprs) = 0 THEN [st EXCEPT !.res = OutOfFuel]
    ELSE LET s1 == evaluate(exprs[i], env, st)
         IN IF ~IsValue(s1) THEN s1
            ELSE IF has_payload(s1.res.v)
                 THEN [s1 EXCEPT !.res =
                         Return(dict_get(_as_mapping(s1.res.v.vals),
                                         PyStr("payload")))]
                 ELSE loop_body(exprs, IF i = Len(exprs) THEN 1 ELSE i + 1,
                                env, s1)

\* _loop; loops counts the invocations in progress
_loop(env, exprs, st) ==
    LET s1 == loop_body(exprs, 1, env, [st EXCEPT !.loops = @ + 1])
    IN [s1 EXCEPT !.loops = st.loops]

\* _setn; amalgams.py defines no Notification, so the isinstance test of
\* line 24 raises AttributeError once the value has been computed
_setn(env, args, st) ==
    IF Len(args) # 2 THEN [st EXCEPT !.res = Raise("TypeError")]
    ELSE LET s1 == evaluate(args[2], env, st)
         IN IF ~IsValue(s1) THEN s1
            ELSE [s1 EXCEPT !.res = Raise("AttributeError")]

\* _setr
_setr(env, args, st) ==
    IF Len(args) # 2 THEN [st EXCEPT !.res = Raise("TypeError")]
    ELSE LET s1 == evaluate(args[1], env, st)
         IN IF ~IsValue(s1) THEN s1
            ELSE IF s1.res.v.t # "Symbol"
                 THEN [s1 EXCEPT !.res = Raise("TypeError")]
                 ELSE LET rname == s1.res.v
                          s2 == evaluate(args[2], env, s1)
                      IN IF ~IsValue(s2) THEN s2
                         ELSE IF setitem_raises(s2.envs, env, rname.sym)
                              THEN [s2 EXCEPT !.res = Raise("AttributeError")]
                              ELSE [s2 EXCEPT !.envs =
                                      setitem(@, env, rname.sym, s2.res.v)]

\* create_fn: the Function object it returns
create_fn(fname, fargs, fbody, defer, contextual) ==
    FunctionObject(py_raw(fname), "closure_fn", fargs, fbody, <<>>, defer,
                   contextual)

\* what [arg.value for arg in args] raises, "" when it is a list
arg_values_raise(args) ==
    IF ~iterable(args) THEN "TypeError"
    ELSE IF \E i \in 1..Len(args.vals) : arg_value(args.vals[i]).py = "raise"
         THEN "AttributeError"
         ELSE ""

\* [arg.value for arg in args]
arg_values(args) == [i \in 1..Len(args.vals) |-> arg_value(args.vals[i])]

\* the heap with the Function create_fn returned, bound to env when env is
\* not the root
created_in(env, fn, st) ==
    IF st.envs[env].parent # 0
    THEN bind(Append(st.fns, fn), Len(st.fns) + 1, env)
    ELSE Append(st.fns, fn)

\* _fn
_fn(env, args, st) ==
    IF Len(args) # 2 THEN [st EXCEPT !.res = Raise("TypeError")]
    ELSE IF arg_values_raise(args[1]) # ""
         THEN [st EXCEPT !.res = Raise(arg_values_raise(args[1]))]
    ELSE [st EXCEPT
            !.fns = created_in(env,
                       create_fn(PyStr("~lambda~"), arg_values(args[1]),
                                 args[2], FALSE, FALSE), st),
            !.res = Return(Function(Len(st.fns) + 1))]

\* the primordial called name, as make_function stored it
Primordial(name) ==
    PRIMORDIALS[CHOOSE i \in 1..Len(PRIMORDIALS) : PRIMORDIALS[i].name = name]

\* _let, lines 128-139: the pair is a Vector of a Symbol and a value
well_formed_pair(pair) ==
    /\ pair.t = "Vector"
    /\ Len(pair.vals) = 2
    /\ pair.vals[1].t = "Symbol"

\* _let; a malformed pair makes it build am.Notification(), which
\* amalgams.py does not define
_let(env, args, st) ==
    IF Len(args) # 2 THEN [st EXCEPT !.res = Raise("TypeError")]
    ELSE IF args[1].t \notin {"Vector", "SExpression"}
         THEN [st EXCEPT !.res = Raise("TypeError")]
    ELSE LET pairs == args[1].vals
             body == args[2]
         IN IF \E i \in 1..Len(pairs) : ~well_formed_pair(pairs[i])
            THEN [st EXCEPT !.res = Raise("AttributeError")]
            ELSE LET names == [i \in 1..Len(pairs) |-> pairs[i].vals[1]]
                     values == [i \in 1..Len(pairs) |-> pairs[i].vals[2]]
                     s1 == _func(Primordial("fn"), env,
                                 <<Vector(names), body>>, st)
                 IN IF ~IsValue(s1) THEN s1
                    ELSE call(s1.res.v.id, env, values, s1)

\* Function.with_name
with_name(fns, f, name) == [fns EXCEPT ![f].name = name]

\* _mkfn: _setn(env, name, _fn(env, args, body).with_name(name.value))
_mkfn(env, args, st) ==
    IF Len(args) # 3 THEN [st EXCEPT !.res = Raise("TypeError")]
    ELSE LET s1 == _func(Primordial("fn"), env, <<args[2], args[3]>>, st)
         IN IF ~IsValue(s1) THEN s1
            ELSE IF value_of(args[1]).py = "raise"
                 THEN [s1 EXCEPT !.res = Raise("AttributeError")]
                 ELSE _func(Primordial("setn"), env, <<args[1], s1.res.v>>,
                         [s1 EXCEPT !.fns = with_name(@, s1.res.v.id,
                                       py_raw(value_of(args[1])))])

\* _macro
_macro(env, args, st) ==
    IF Len(args) # 3 THEN [st EXCEPT !.res = Raise("TypeError")]
    ELSE IF value_of(args[1]).py = "raise"
         THEN [st EXCEPT !.res = Raise("AttributeError")]
    ELSE IF arg_values_raise(args[2]) # ""
         THEN [st EXCEPT !.res = Raise(arg_values_raise(args[2]))]
    ELSE _func(Primordial("setn"), env,
               <<args[1], Function(Len(st.fns) + 1)>>,
               [st EXCEPT !.fns = created_in(env,
                     create_fn(value_of(args[1]), arg_values(args[2]),
                               args[3], TRUE, FALSE), st)])

\* the outcome of a function that uses only its arguments
\* a nan the function made is a new object, the next one of this evaluation
makes_nan(res) ==
    /\ res.k = "value"
    /\ res.v.t = "Numeric" /\ "pyvalue" \in DOMAIN res.v
    /\ is_nan(res.v.pyvalue) /\ res.v.pyvalue.id = <<0, 0>>
returned(res, st) ==
    IF makes_nan(res)
    THEN [st EXCEPT
            !.res = Return(NumericOf(NaNObject(<<st.op, st.made + 1>>))),
            !.made = @ + 1]
    ELSE [st EXCEPT !.res = res]

\* the functions that make_function wraps, by name
primordial(name, env, args, st) ==
    CASE name = "+" -> returned(_add(args), st)
      [] name = "-" -> returned(_sub(args), st)
      [] name = "*" -> returned(_mul(args), st)
      [] name = "/" -> returned(_div(args), st)
      [] name = "bool" -> returned(call1(bool, args), st)
      [] name = "not" -> returned(call1(not, args), st)
      [] name = ">" -> returned(call2(_gt, args), st)
      [] name = "<" -> returned(call2(_lt, args), st)
      [] name = "=" -> returned(_eq(args), st)
      [] name = "/=" -> returned(call2(_ne, args), st)
      [] name = ">=" -> returned(call2(_ge, args), st)
      [] name = "<=" -> returned(call2(_le, args), st)
      [] name = "return" -> returned(_return(args), st)
      [] name = "break" -> returned(_break(args), st)
      [] name = "unquote" -> returned(_unquote(args), st)
      [] name = "merge" -> returned(_merge(args), st)
      [] name = "slice" ->
            returned(IF Len(args) = 3
                     THEN _slice(args[1], args[2], args[3], Numeric(1))
                     ELSE IF Len(args) = 4
                     THEN _slice(args[1], args[2], args[3], args[4])
                     ELSE Raise("TypeError"), st)
      [] name = "at" -> returned(call2(_at, args), st)
      [] name = "remove" -> returned(call2(_remove, args), st)
      [] name = "len" -> returned(call1(_len, args), st)
      [] name = "cons" -> returned(call2(_cons, args), st)
      [] name = "snoc" -> returned(call2(_snoc, args), st)
      [] name = "is-map" -> returned(call1(_is_map, args), st)
      [] name = "map-in" -> returned(call2(_map_in, args), st)
      [] name = "map-at" -> returned(call2(_map_at, args), st)
      [] name = "map-up" -> returned(call3(_map_up, args), st)
      [] name = "or" -> _or(env, args, st)
      [] name = "when" -> _when(env, args, st)
      [] name = "cond" -> _cond(env, args, st)
      [] name = "print" -> _print(env, args, st)
      [] name = "putstrln" -> _putstrln(env, args, st)
      [] name = "exit" -> _exit(env, args, st)
      [] name = "eval" -> _eval(env, args, st)
      [] name = "mkfn" -> _mkfn(env, args, st)
      [] name = "macro" -> _macro(env, args, st)
      [] name = "if" -> _if(env, args, st)
      [] name = "do" -> _do(env, args, st)
      [] name = "loop" -> _loop(env, args, st)
      [] name = "setn" -> _setn(env, args, st)
      [] name = "setr" -> _setr(env, args, st)
      [] name = "fn" -> _fn(env, args, st)
      [] name = "and" -> _and(env, args, st)
      [] name = "let" -> _let(env, args, st)

\* fn.in_context = flag for fn in fns (the values found for allows)
set_in_context(fns, found, flag) ==
    [f \in DOMAIN fns |->
        IF \E i \in 1..Len(found) :
              found[i].v.t = "Function" /\ found[i].v.id = f
        THEN [fns[f] EXCEPT !.in_context = flag]
        ELSE fns[f]]

\* make_function._func, lines 85-86: the flags are cleared when func returned
leave_context(fns, found, res) ==
    IF res.k = "value" THEN set_in_context(fns, found, FALSE) ELSE fns

\* make_function._func, lines 85-88, once func has ended in s1
func_leave(found, s1) ==
    [s1 EXCEPT !.fns = leave_context(@, found, s1.res)]

\* make_function._func
_func(self, env, arguments, st) ==
    LET entered == search_at_enter(st.envs, env, -1)
        found == [i \in 1..Len(self.allows) |->
                     getitem(entered, env, self.allows[i])]
        left == search_at_exit(entered, env)
    IN IF \E i \in 1..Len(found) : found[i].k # "value"
       THEN [st EXCEPT
               !.envs = left,
               !.res = found[CHOOSE i \in 1..Len(found) :
                               /\ found[i].k # "value"
                               /\ \A j \in 1..(i - 1) : found[j].k = "value"]]
       ELSE func_leave(found,
               primordial(self.fname, env, arguments,
                  [st EXCEPT
                     !.envs = left,
                     !.fns = set_in_context(@, found, TRUE)]))

\* closure_fn, lines 660-664: a Function the body returned is bound to the
\* environment of the call
bind_returned(cl_env, s1) ==
    IF IsValue(s1) /\ s1.res.v.t = "Function"
    THEN [s1 EXCEPT !.fns = bind(@, s1.res.v.id, cl_env)]
    ELSE s1

\* the formals by their place, "&rest" as it is: closure_bindings pairs
\* formals and arguments whatever the formals are
places(fkeys) ==
    [i \in 1..Len(fkeys) |->
        IF fkeys[i] = PyStr("&rest") THEN "&rest" ELSE str_repeat("#", i)]

\* the places whose formal the dict of the call takes as a key; placed is
\* the dict by place
inserted(ps, placed) == {i \in DOMAIN ps : ps[i] \in DOMAIN placed}

\* the last of the places keys whose key equals that of place i
last_same(fkeys, keys, i) ==
    CHOOSE j \in keys :
        /\ is_or_eq(fkeys[j], fkeys[i])
        /\ \A x \in keys : is_or_eq(fkeys[x], fkeys[i]) => x <= j

\* the value of the key of place i: that of the last place with an equal key
bound_value(fkeys, ps, keys, placed, i) ==
    placed[ps[last_same(fkeys, keys, i)]]

\* the items of the dict whose key is a str
named(fkeys, ps, keys, placed) ==
    [k \in {fkeys[i].s : i \in {j \in keys : fkeys[j].py = "str"}} |->
        bound_value(fkeys, ps, keys, placed,
                    CHOOSE i \in 1..Len(fkeys) : fkeys[i] = PyStr(k))]

\* the first place of each key that is no str
firsts(fkeys, keys) ==
    {i \in keys : /\ fkeys[i].py # "str"
                  /\ \A j \in keys : j < i => ~is_or_eq(fkeys[j], fkeys[i])}

\* the n-th member of a set of numbers
nth(S, n) == CHOOSE i \in S : Cardinality({j \in S : j <= i}) = n

\* the items of the places fs, in their order
items_at(fkeys, ps, keys, placed, fs) ==
    [n \in 1..Cardinality(fs) |->
        <<fkeys[nth(fs, n)], bound_value(fkeys, ps, keys, placed, nth(fs, n))>>]

\* the items whose key is another value, by the first place of each key
unnamed(fkeys, ps, keys, placed) ==
    items_at(fkeys, ps, keys, placed, firsts(fkeys, keys))

\* closure_fn lines 658-664: the dict is pushed as the environment cl_env,
\* the body is evaluated there and a Function it returns is bound to it
closure_call(self, environment, bindings, others, cl_env, st) ==
    bind_returned(cl_env,
        evaluate(self.fbody, cl_env,
           [st EXCEPT
              !.envs = [env_push(st.envs, environment, bindings,
                                 <<self.fname, "-closure">>)
                           EXCEPT ![cl_env].unnamed = others],
              !.log = Append(@, LogPush(cl_env, environment, bindings,
                                        others, st.envs))]))

\* closure_fn once the dict has its keys: a key that cannot be hashed ends
\* it with TypeError before the environment is pushed
closure_keyed(self, environment, ps, placed, keys, st) ==
    IF \E i \in keys : ~hashable(self.fkeys[i])
    THEN [st EXCEPT !.res = Raise("TypeError")]
    ELSE closure_call(self, environment,
                      named(self.fkeys, ps, keys, placed),
                      unnamed(self.fkeys, ps, keys, placed),
                      Len(st.envs) + 1, st)

closure_placed(self, environment, ps, placed, st) ==
    closure_keyed(self, environment, ps, placed, inserted(ps, placed), st)

\* the body evaluated in the call environment itself, with the bindings
\* merged into it
in_place(self, environment, bindings, st) ==
    bind_returned(environment,
        evaluate(self.fbody, environment,
           [st EXCEPT !.envs[environment].bindings = DictMerge(@, bindings)]))

in_place_placed(self, environment, ps, placed, st) ==
    in_place(self, environment,
             named(self.fkeys, ps, inserted(ps, placed), placed), st)

\* a closure_fn that binds the formals in the call environment itself
closure_fn_in_place(self, environment, arguments, st) ==
    in_place_placed(self, environment, places(self.fkeys),
                    closure_bindings(places(self.fkeys), arguments), st)

\* create_fn.closure_fn; the Vector of the variadic arguments is made
\* whether or not a later formal takes its key, and one that cannot be made
\* ends the call with TypeError
closure_fn(self, environment, arguments, st) ==
    IF Vector_raises(rest_arguments(places(self.fkeys), arguments))
    THEN [st EXCEPT !.res = Raise("TypeError")]
    ELSE closure_placed(self, environment, places(self.fkeys),
                        closure_bindings(places(self.fkeys), arguments), st)

\* self.fn(environment, *args)
fn_invoke(f, environment, args, st) ==
    IF st.fns[f].kind = "primordial"
    THEN _func(st.fns[f], environment, args, st)
    ELSE closure_fn(st.fns[f], environment, args, st)

(***************************************************************************)
(* The state of the interpreter: the heaps, and the outcome and history of *)
(* the last top-level evaluation.                                          *)
(***************************************************************************)
VARIABLES
    envs,     \* the Environment objects; envs[1] is Engine.environment
    fns,      \* the Function objects
    result,   \* outcome of the last operation
    log,      \* history of the last top-level evaluation
    last,     \* the last operation and its parameters
    ops,      \* number of operations so far
    parse_buffer,  \* Parser.parse_buffer of the Engine's parser
    cont      \* the continuation flag of Engine.repl

vars == <<envs, fns, result, log, last, ops, parse_buffer, cont>>

\* Engine.__init__: the global environment holds the primordial functions
Init ==
    /\ envs = <<Environment(FUNCTIONS, 0, <<"global">>, <<>>)>>
    /\ fns = PRIMORDIALS
    /\ result = [k |-> "none"]
    /\ log = <<>>
    /\ last = [op |-> "init"]
    /\ ops = 0
    /\ parse_buffer = ""
    /\ cont = FALSE

\* the evaluator record at the start of a top-level evaluation
start_state ==
    [envs |-> envs, fns |-> fns, res |-> [k |-> "none"], fuel |-> MaxSteps,
     log |-> <<>>, calls |-> 0, depth |-> 0, loops |-> 0,
     op |-> ops + 1, made |-> 0]

\* Engine.parse_and_run on the tree of a program: evaluate it in the global
\* environment.  An evaluation that does not return leaves the engine hung.
ran(program, s) ==
    /\ result.k # "OutOfFuel"
    /\ ops' = ops + 1
    /\ UNCHANGED <<parse_buffer, cont>>
    /\ last' = [op |-> "parse_and_run", program |-> program]
    /\ IF s.res.k = "OutOfFuel"
       THEN /\ result' = OutOfFuel
            /\ log' = <<>>
            /\ UNCHANGED <<envs, fns>>
       ELSE /\ result' = s.res
            /\ log' = s.log
            /\ envs' = s.envs
            /\ fns' = s.fns

parse_and_run(program) == ran(program, evaluate(program, 1, start_state))

(***************************************************************************)
(* Programs, as the trees the parser builds.                               *)
(***************************************************************************)
Call1(f, a) == SExpression(<<f, a>>)
Call2(f, a, b) == SExpression(<<f, a, b>>)
Call3(f, a, b, c) == SExpression(<<f, a, b, c>>)
\* (setr (unquote 'name) value)
Setr(name, value) ==
    Call2(Symbol("setr"), Call1(Symbol("unquote"), Quoted(Symbol(name))), value)

\* (fn [x] (fn [y] (+ x y)))
AdderMaker ==
    Call2(Symbol("fn"), Vector(<<Symbol("x")>>),
          Call2(Symbol("fn"), Vector(<<Symbol("y")>>),
                Call2(Symbol("+"), Symbol("x"), Symbol("y"))))
\* (((fn [x] (fn [y] (+ x y))) 1) 2)
ClosureCall == Call1(Call1(AdderMaker, Numeric(1)), Numeric(2))
\* (setr (unquote 'f) ((fn [x] (fn [y] (+ x y))) 1))
DefineAdder == Setr("f", Call1(AdderMaker, Numeric(1)))
\* (f 2)
CallAdder == Call1(Symbol("f"), Numeric(2))
\* (f x)
CallAdderX == Call1(Symbol("f"), Symbol("x"))
\* ((fn [x] (do (setr (unquote 'g) (fn [y] (+ x y)))
\*              (setr (unquote 'x) 5)
\*              (g 2))) 1)
SharedClosure ==
    Call1(Call2(Symbol("fn"), Vector(<<Symbol("x")>>),
                Call3(Symbol("do"),
                      Setr("g", Call2(Symbol("fn"), Vector(<<Symbol("y")>>),
                                Call2(Symbol("+"), Symbol("x"), Symbol("y")))),
                      Setr("x", Numeric(5)),
                      Call1(Symbol("g"), Numeric(2)))),
          Numeric(1))

\* (if (= x 10) (return 42) :NIL)
ReturnAtTen ==
    Call3(Symbol("if"), Call2(Symbol("="), Symbol("x"), Numeric(10)),
          Call1(Symbol("return"), Numeric(42)), Atom("NIL"))
\* (+ x 1)
XPlusOne == Call2(Symbol("+"), Symbol("x"), Numeric(1))
\* test_loop_return: (loop (if (= x 10) (return 42) :NIL) (setn x (+ x 1)))
LoopReturn ==
    Call2(Symbol("loop"), ReturnAtTen, Call2(Symbol("setn"), Symbol("x"), XPlusOne))
\* the same loop, the counter incremented with setr
LoopReturnSetr ==
    Call2(Symbol("loop"), ReturnAtTen, Setr("x", XPlusOne))
\* test_loop_break, the second expression written with setr:
\* (loop (break) (setr (unquote 'x) 42))
LoopBreak ==
    Call2(Symbol("loop"), SExpression(<<Symbol("break")>>),
          Setr("x", Numeric(42)))
\* test_loop_fatal: (loop u)
LoopFatal == Call1(Symbol("loop"), Symbol("u"))
\* (loop (+ 1 u))
LoopFatalNested ==
    Call1(Symbol("loop"), Call2(Symbol("+"), Numeric(1), Symbol("u")))
\* (break)
Break == SExpression(<<Symbol("break")>>)
\* (return (setr (unquote 'w) 1))
ReturnOutside == Call1(Symbol("return"), Setr("w", Numeric(1)))
\* (loop (loop (break)) (return 7))
LoopNested ==
    Call2(Symbol("loop"), Call1(Symbol("loop"), Break),
          Call1(Symbol("return"), Numeric(7)))
\* (loop [1 (return 5)] (break))
LoopVectorEscape ==
    Call2(Symbol("loop"),
          Vector(<<Numeric(1), Call1(Symbol("return"), Numeric(5))>>), Break)
\* (loop ((fn [a] 7) (return 5)) (break))
LoopCallEscape ==
    Call2(Symbol("loop"),
          Call1(Call2(Symbol("fn"), Vector(<<Symbol("a")>>), Numeric(7)),
                Call1(Symbol("return"), Numeric(5))),
          Break)

Programs ==
    { ClosureCall, DefineAdder, CallAdder, CallAdderX, SharedClosure,
      LoopReturn, LoopReturnSetr, LoopBreak, LoopFatal, LoopFatalNested,
      Break, ReturnOutside, LoopNested, LoopVectorEscape, LoopCallEscape }

(***************************************************************************)
(* Programs that fail, and programs whose arguments have side effects.     *)
(***************************************************************************)
\* u
Unbound == Symbol("u")
\* (+ 1 u)
AddUnbound == Call2(Symbol("+"), Numeric(1), Symbol("u"))
\* ((+ 1 1) (setr (unquote 'w) 1))
NotCallable ==
    Call1(Call2(Symbol("+"), Numeric(1), Numeric(1)), Setr("w", Numeric(1)))
\* [1 (+ 1 u)]
VecAddUnbound == Vector(<<Numeric(1), AddUnbound>>)
\* (+ 1 [u])
AddVecUnbound == Call2(Symbol("+"), Numeric(1), Vector(<<Symbol("u")>>))
\* (if u 1 2)
IfUnbound == Call3(Symbol("if"), Symbol("u"), Numeric(1), Numeric(2))
\* [(setr (unquote 'b) 2) u (setr (unquote 'w) 1)]
VectorFatal ==
    Vector(<<Setr("b", Numeric(2)), Symbol("u"), Setr("w", Numeric(1))>>)
\* [(setr (unquote 'a) 1) (+ a 1)]
VectorOrder ==
    Vector(<<Setr("a", Numeric(1)), Call2(Symbol("+"), Symbol("a"), Numeric(1))>>)
\* (+ (setr (unquote 'a) 1) u (setr (unquote 'w) 1))
CallFatal ==
    Call3(Symbol("+"), Setr("a", Numeric(1)), Symbol("u"),
          Setr("w", Numeric(1)))
\* (+ (setr (unquote 'a) 1) (+ a 1))
CallOrder ==
    Call2(Symbol("+"), Setr("a", Numeric(1)),
          Call2(Symbol("+"), Symbol("a"), Numeric(1)))
\* (and (setr (unquote 'a) :TRUE) :FALSE (setr (unquote 'w) 1))
And ==
    Call3(Symbol("and"), Setr("a", Atom("TRUE")), Atom("FALSE"),
          Setr("w", Numeric(1)))
\* (if 1 2 (setr (unquote 'w) 1))
IfSkip == Call3(Symbol("if"), Numeric(1), Numeric(2), Setr("w", Numeric(1)))
\* (let [[x u]] x)
LetUnbound ==
    Call2(Symbol("let"), Vector(<<Vector(<<Symbol("x"), Symbol("u")>>)>>),
          Symbol("x"))

\* ((fn [p q] (+ p q)) (setr (unquote 'a) 1) (+ a 1))
ClosureOrder ==
    Call2(Call2(Symbol("fn"), Vector(<<Symbol("p"), Symbol("q")>>),
                Call2(Symbol("+"), Symbol("p"), Symbol("q"))),
          Setr("a", Numeric(1)),
          Call2(Symbol("+"), Symbol("a"), Numeric(1)))

FailPrograms ==
    { Unbound, AddUnbound, NotCallable, VecAddUnbound, AddVecUnbound,
      IfUnbound, VectorFatal, VectorOrder, CallFatal, CallOrder, And, IfSkip,
      LetUnbound, ClosureOrder }

(***************************************************************************)
(* Programs that call functions made by fn and let.                        *)
(***************************************************************************)
\* (let [[x 21] [y 21]] (+ x y))
Let ==
    Call2(Symbol("let"),
          Vector(<< Vector(<<Symbol("x"), Numeric(21)>>),
                    Vector(<<Symbol("y"), Numeric(21)>>) >>),
          Call2(Symbol("+"), Symbol("x"), Symbol("y")))
\* ((fn [a] (setr (unquote 'a) 5)) 1)
ParamSet ==
    Call1(Call2(Symbol("fn"), Vector(<<Symbol("a")>>), Setr("a", Numeric(5))),
          Numeric(1))
\* (do (setr (unquote 'f) (fn [a] (fn [] a)))
\*     (setr (unquote 'g) (f 1))
\*     (setr (unquote 'h) (f 2))
\*     (+ (g) (h)))
TwoCalls ==
    SExpression(<<
        Symbol("do"),
        Setr("f", Call2(Symbol("fn"), Vector(<<Symbol("a")>>),
                        Call2(Symbol("fn"), Vector(<<>>), Symbol("a")))),
        Setr("g", Call1(Symbol("f"), Numeric(1))),
        Setr("h", Call1(Symbol("f"), Numeric(2))),
        Call2(Symbol("+"), SExpression(<<Symbol("g")>>),
              SExpression(<<Symbol("h")>>)) >>)

CallPrograms == { Let, ParamSet, TwoCalls, DefineAdder, CallAdder }

\* the four parameter layouts with one &rest
RestLayouts ==
    { <<"&rest">>, <<"a", "&rest">>, <<"&rest", "b">>, <<"a", "&rest", "b">> }
\* ((fn layout layout) 1 ... n): the call returns the values of its formals
RestCall(layout, n) ==
    LET formals == Vector([i \in 1..Len(layout) |-> Symbol(layout[i])])
    IN SExpression(<<Call2(Symbol("fn"), formals, formals)>>
                   \o [i \in 1..n |-> Numeric(i)])

\* with self.search_at(depth=depth): self[item] = value
setitem_at(self, item, value, depth) ==
    /\ result.k # "OutOfFuel"
    /\ ops' = ops + 1
    /\ UNCHANGED <<parse_buffer, cont>>
    /\ last' = [op |-> "setitem", env |-> self, item |-> item,
                value |-> value, depth |-> depth]
    /\ log' = <<>>
    /\ UNCHANGED fns
    /\ IF ~search_at_valid(envs, self, depth)
       THEN /\ result' = Raise("ValueError")
            /\ UNCHANGED envs
       ELSE LET entered == search_at_enter(envs, self, depth)
            IN IF setitem_raises(entered, self, item)
               THEN /\ result' = Raise("AttributeError")
                    /\ envs' = search_at_exit(entered, self)
               ELSE /\ result' = [k |-> "none"]
                    /\ envs' = search_at_exit(
                                  setitem(entered, self, item, value), self)

\* self.env_push()
push(self) ==
    /\ result.k # "OutOfFuel"
    /\ ops' = ops + 1
    /\ UNCHANGED <<parse_buffer, cont>>
    /\ last' = [op |-> "env_push", env |-> self]
    /\ log' = <<>>
    /\ result' = [k |-> "none"]
    /\ envs' = env_push(envs, self, EmptyDict,
                        Append(envs[self].name, "-child"))
    /\ UNCHANGED fns

\* values the host binds
HostValues == {Numeric(0), Numeric(5)}

(***************************************************************************)
(* The interpreter: programs are run in the global environment, and the    *)
(* host may rebind x in any environment between two runs.                  *)
(***************************************************************************)
Next ==
    /\ ops < MaxOps
    /\ \/ \E program \in Programs : parse_and_run(program)
       \/ \E self \in DOMAIN envs, value \in HostValues :
             setitem_at(self, "x", value, 0)

Spec == Init /\ [][Next]_vars

(***************************************************************************)
(* The environment on its own: the host pushes children and sets names at  *)
(* every search depth.                                                     *)
(***************************************************************************)
EnvItems == {"x", "y"}
EnvDepths == -1..2

NextEnv ==
    /\ ops < MaxEnvOps
    /\ \/ \E self \in DOMAIN envs : push(self)
       \/ \E self \in DOMAIN envs, item \in EnvItems, depth \in EnvDepths :
             setitem_at(self, item, Numeric(ops + 1), depth)

SpecEnv == Init /\ [][NextEnv]_vars

(***************************************************************************)
(* The interpreter running programs that fail.                             *)
(***************************************************************************)
NextFail ==
    /\ ops < MaxFailRuns
    /\ \E program \in FailPrograms : parse_and_run(program)

SpecFail == Init /\ [][NextFail]_vars

(***************************************************************************)
(* The interpreter running programs that call closures.                    *)
(***************************************************************************)
NextCall ==
    /\ ops < MaxCallRuns
    /\ \/ \E program \in CallPrograms : parse_and_run(program)
       \/ \E layout \in RestLayouts, n \in 0..MaxArgs :
             parse_and_run(RestCall(layout, n))

SpecCall == Init /\ [][NextCall]_vars

(***************************************************************************)
(* Lookups on the environment: the host pushes children, sets names, and   *)
(* gets, tests, deletes and evaluates names at every search depth.         *)
(***************************************************************************)
\* with self.search_at(depth=depth): self[item]
getitem_at(self, item, depth) ==
    /\ ops' = ops + 1
    /\ UNCHANGED <<parse_buffer, cont>>
    /\ last' = [op |-> "getitem", env |-> self, item |-> item, depth |-> depth]
    /\ log' = <<>>
    /\ UNCHANGED <<envs, fns>>
    /\ result' = IF ~search_at_valid(envs, self, depth)
                 THEN Raise("ValueError")
                 ELSE getitem(search_at_enter(envs, self, depth), self, item)

\* with self.search_at(depth=depth): item in self
contains_at(self, item, depth) ==
    /\ ops' = ops + 1
    /\ UNCHANGED <<parse_buffer, cont>>
    /\ last' = [op |-> "contains", env |-> self, item |-> item,
                depth |-> depth]
    /\ log' = <<>>
    /\ UNCHANGED <<envs, fns>>
    /\ result' = IF ~search_at_valid(envs, self, depth)
                 THEN Raise("ValueError")
                 ELSE contains(search_at_enter(envs, self, depth), self, item)

\* with self.search_at(depth=depth): del self[item]
delitem_at(self, item, depth) ==
    /\ ops' = ops + 1
    /\ UNCHANGED <<parse_buffer, cont>>
    /\ last' = [op |-> "delitem", env |-> self, item |-> item, depth |-> depth]
    /\ log' = <<>>
    /\ UNCHANGED fns
    /\ IF ~search_at_valid(envs, self, depth)
       THEN /\ result' = Raise("ValueError")
            /\ UNCHANGED envs
       ELSE LET entered == search_at_enter(envs, self, depth)
                raised == delitem_raises(entered, self, item)
            IN /\ result' = IF raised = "" THEN [k |-> "none"]
                            ELSE Raise(raised)
               /\ envs' = search_at_exit(delitem(entered, self, item), self)

\* with self.search_at(depth=depth): Symbol(item).evaluate(self)
evaluate_at(self, item, depth) ==
    /\ ops' = ops + 1
    /\ UNCHANGED <<parse_buffer, cont>>
    /\ last' = [op |-> "evaluate", env |-> self, item |-> item,
                depth |-> depth]
    /\ UNCHANGED fns
    /\ IF ~search_at_valid(envs, self, depth)
       THEN /\ result' = Raise("ValueError")
            /\ log' = <<>>
            /\ UNCHANGED envs
       ELSE LET s == evaluate(Symbol(item), self,
                        [start_state EXCEPT
                           !.envs = search_at_enter(envs, self, depth)])
            IN /\ result' = s.res
               /\ log' = s.log
               /\ envs' = search_at_exit(s.envs, self)

NextScope ==
    /\ ops < MaxScopeOps
    /\ \/ \E self \in DOMAIN envs : push(self)
       \/ \E self \in DOMAIN envs, item \in EnvItems, depth \in EnvDepths :
             \/ setitem_at(self, item, Numeric(ops + 1), depth)
             \/ getitem_at(self, item, depth)
             \/ contains_at(self, item, depth)
             \/ delitem_at(self, item, depth)
             \/ evaluate_at(self, item, depth)

SpecScope == Init /\ [][NextScope]_vars

(***************************************************************************)
(* The Engine as the command line uses it: interpret prints the result.    *)
(***************************************************************************)
\* (+ x x), of test_engine_external_interpret
PlusXX == Call2(Symbol("+"), Symbol("x"), Symbol("x"))
\* (+ 21 21)
Sum == Call2(Symbol("+"), Numeric(21), Numeric(21))
\* (setr (unquote 'x) 21) and (setr (unquote 'u) 1)
SetX == Setr("x", Numeric(21))
SetU == Setr("u", Numeric(1))
\* test_let_fails: the bindings [x], [[42 x]], [[x]], with a body that would
\* bind w
LetNotVector ==
    Call2(Symbol("let"), Vector(<<Symbol("x")>>), Setr("w", Numeric(1)))
LetNotSymbol ==
    Call2(Symbol("let"),
          Vector(<<Vector(<<Numeric(42), Symbol("x")>>)>>),
          Setr("w", Numeric(1)))
LetTooShort ==
    Call2(Symbol("let"), Vector(<<Vector(<<Symbol("x")>>)>>),
          Setr("w", Numeric(1)))
\* (if 1): two arguments are missing
IfArity == Call1(Symbol("if"), Numeric(1))
\* (setn x 21), of test_engine_internal_interpret, and (setn x u)
Setn == Call2(Symbol("setn"), Symbol("x"), Numeric(21))
SetnUnbound == Call2(Symbol("setn"), Symbol("x"), Symbol("u"))

EnginePrograms ==
    { PlusXX, Sum, SetX, SetU, LetNotVector, LetNotSymbol, LetTooShort,
      IfArity, Setn, SetnUnbound }

\* Engine.interpret, lines 94-98, once _interpret has ended with res: what
\* it raises and what it prints.  am.Notification does not exist, so the
\* isinstance test of line 95 raises AttributeError before either print.
interpret_outcome(res) ==
    IF res.k # "value"
    THEN [raised |-> res, out |-> <<>>, err |-> <<>>]
    ELSE [raised |-> Raise("AttributeError"), out |-> <<>>, err |-> <<>>]

\* Engine.interpret on the tree of a program, evaluated with s and ended
\* with outcome
interpreted(program, s, outcome) ==
    /\ result.k # "OutOfFuel"
    /\ s.res.k # "OutOfFuel"
    /\ ops' = ops + 1
    /\ UNCHANGED <<parse_buffer, cont>>
    /\ last' = [op |-> "interpret", program |-> program,
                evaluated |-> s.res,
                out |-> outcome.out, err |-> outcome.err]
    /\ result' = outcome.raised
    /\ log' = s.log
    /\ envs' = s.envs
    /\ fns' = s.fns

interpret_evaluated(program, s) ==
    interpreted(program, s, interpret_outcome(s.res))

interpret(program) ==
    interpret_evaluated(program, evaluate(program, 1, start_state))

NextEngine ==
    /\ ops < MaxEngineRuns
    /\ \E program \in EnginePrograms :
          \/ parse_and_run(program)
          \/ interpret(program)

SpecEngine == Init /\ [][NextEngine]_vars

(***************************************************************************)
(* The host evaluates literals in the environments it made, as the tests   *)
(* of the literal classes do.                                              *)
(***************************************************************************)
Literals ==
    { Atom("NIL"), Numeric(21), String("foo-bar-baz"),
      Quoted(Setr("w", Numeric(1))), Quoted(Symbol("u")),
      Function(1), Function(9), Internal("object") }

\* literal.evaluate(self)
evaluated_literal(self, literal, s) ==
    /\ ops' = ops + 1
    /\ UNCHANGED <<parse_buffer, cont>>
    /\ last' = [op |-> "evaluate_literal", env |-> self, literal |-> literal]
    /\ result' = s.res
    /\ log' = s.log
    /\ envs' = s.envs
    /\ fns' = s.fns
evaluate_literal(self, literal) ==
    evaluated_literal(self, literal, evaluate(literal, self, start_state))

NextLiteral ==
    /\ ops < MaxLiteralOps
    /\ \/ \E self \in DOMAIN envs : push(self)
       \/ \E self \in DOMAIN envs, literal \in Literals :
             evaluate_literal(self, literal)

SpecLiteral == Init /\ [][NextLiteral]_vars

(***************************************************************************)
(* The Vector primordials (primordials/vector.py), on Vector objects the   *)
(* host built, as the tests call them.                                     *)
(***************************************************************************)
\* the elements of the Vectors of the tests
VectorElements == {Atom("foo"), Atom("bar"), Numeric(21), Numeric(42)}

\* Atoms whose value is no name: the Atom map-up builds for the key of a
\* Numeric that holds a nan, another one holding another nan object, and
\* an Atom the host made of a Numeric, whose value cannot be hashed
NanKey == AtomOf(NaNObject(<<0, 1>>))
OtherNanKey == AtomOf(NaNObject(<<0, 2>>))
NestedKey == AtomOf(PyObject(Numeric(1)))

\* Vectors of such Atoms: the same nan object twice (as merge repeats it),
\* two nan objects, equal numbers of two types, and the nested Atom before
\* and after the place where the loop of _as_mapping ends
HostVectors ==
    { <<NanKey, Numeric(21)>>,
      <<NanKey, Numeric(21), NanKey, Numeric(42)>>,
      <<NanKey, Numeric(21), OtherNanKey, Numeric(42)>>,
      <<AtomOf(PyInt(1)), Numeric(21), AtomOf(PyFloat(1, 1)), Numeric(42)>>,
      <<NestedKey, Numeric(21)>>,
      <<Atom("foo"), Numeric(21), NestedKey, Numeric(42)>>,
      <<Numeric(21), Numeric(42), NestedKey, Numeric(42)>>,
      <<Numeric(21), NestedKey, Numeric(42)>>,
      <<NestedKey, Numeric(21), Numeric(42)>> }

\* what cons and snoc add
AddedElements == VectorElements \cup {NanKey, NestedKey}

RECURSIVE VectorsOfLength(_)
VectorsOfLength(n) ==
    IF n = 0 THEN {<<>>}
    ELSE {Append(vals, e) : vals \in VectorsOfLength(n - 1),
                            e \in VectorElements}

\* the operands of merge; the Atom of 5 is what map-up builds for the key
\* of a Numeric
MergeOperands ==
    { <<Atom("bar"), Numeric(42)>>, <<Numeric(63), Numeric(84)>>,
      <<Atom("foo"), Numeric(63)>>, <<AtomOf(PyInt(5)), Numeric(63)>>,
      <<NanKey, Numeric(63)>>, <<Atom("bar")>>, <<>> }

\* what the host does next with a Vector object, or with what it has
vector_step(op, operands, value) ==
    /\ ops' = ops + 1
    /\ UNCHANGED <<parse_buffer, cont>>
    /\ last' = [op |-> op, operands |-> operands, vector |-> result]
    /\ result' = value
    /\ log' = <<>>
    /\ UNCHANGED <<envs, fns>>

\* the Vector object a primordial returned, or what it raised
vector_object(res) ==
    IF res.k = "value" THEN Vector__init__(res.v.vals) ELSE res

NextVector ==
    /\ ops < MaxVectorOps
    /\ \/ /\ result.k # "vector"
          /\ \/ \E n \in 0..MaxLen : \E vals \in VectorsOfLength(n) :
                   vector_step("Vector", vals, Vector__init__(vals))
             \/ \E vals \in HostVectors :
                   vector_step("Vector", vals, Vector__init__(vals))
       \/ /\ result.k = "vector"
          /\ \/ \E vals \in MergeOperands :
                   vector_step("merge", <<vals>>,
                      vector_object(_merge(<<Vector(result.vals),
                                             Vector(vals)>>)))
             \/ \E start \in 0..1, stop \in 0..(MaxLen + 1),
                   step \in 1..2 :
                   vector_step("slice", <<start, stop, step>>,
                      vector_object(_slice(Vector(result.vals),
                                           Numeric(start), Numeric(stop),
                                           Numeric(step))))
             \/ \E amalgam \in AddedElements :
                   vector_step("cons", <<amalgam>>,
                      vector_object(_cons(amalgam, Vector(result.vals))))
             \/ \E amalgam \in AddedElements :
                   vector_step("snoc", <<amalgam>>,
                      vector_object(_snoc(Vector(result.vals), amalgam)))
             \/ \E index \in (-1)..MaxLen :
                   vector_step("remove", <<index>>,
                      vector_object(_remove(Numeric(index),
                                            Vector(result.vals))))

SpecVector == Init /\ [][NextVector]_vars

(***************************************************************************)
(* The reader (parser.py).  grammar.lark is not among the sources, so the  *)
(* tokens and the states of EXPR_PARSER are modelled after the callbacks   *)
(* of Expression, ERROR_EXAMPLES and the texts of the tests: an LALR(1)    *)
(* reader that takes the longest token, ignores whitespace between tokens  *)
(* and calls a callback when the token after its form has been read.  The  *)
(* callbacks, Parser.parse and Parser.repl_parse follow their code.        *)
(* Positions (located_on) are not modelled.                                *)
(***************************************************************************)
\* ERROR_EXAMPLES, in the order of the dict
ERROR_EXAMPLES ==
    << <<"ExpectedEOF", <<"foo bar">>>>,
       <<"ExpectedExpression", <<"">>>>,
       <<"MissingClosing",
         <<"(", "[", "(foo", "[foo", "(foo bar", "[foo bar", "\"foo",
           "\"foo bar">>>>,
       <<"MissingOpening", <<")", "]", "[foo bar)", "(foo bar]">>>> >>

\* the characters of an identifier, after test_symbol_parser_allowed_characters
IdentifierCharacters ==
    "abcdefghijklmnopqrstuvwxyzABCDEFGHIJKLMNOPQRSTUVWXYZ0123456789-+*/<?&\\!_=>"
Whitespace == {" ", "\t", "\n", "\r"}

\* the character of text at i, "" past its end
char_at(text, i) ==
    IF i >= 1 /\ i <= Len(text) THEN SubSeq(text, i, i) ELSE ""

\* the first position from i on that holds no whitespace
RECURSIVE skip(_, _)
skip(text, i) ==
    IF char_at(text, i) \in Whitespace THEN skip(text, i + 1) ELSE i

\* the last position of the digits that start at i, i - 1 when none does
RECURSIVE digits_end(_, _)
digits_end(text, i) ==
    IF char_at(text, i) # "" /\ is_digit(char_at(text, i))
    THEN digits_end(text, i + 1) ELSE i - 1

\* the last position of the identifier characters that start at i
RECURSIVE identifier_end(_, _)
identifier_end(text, i) ==
    IF char_at(text, i) # "" /\ find(IdentifierCharacters, char_at(text, i)) > 0
    THEN identifier_end(text, i + 1) ELSE i - 1

\* the last position of the text of a string that starts at i: a backslash
\* takes the character after it along, an unescaped quote ends the text
RECURSIVE text_end(_, _)
text_end(text, i) ==
    IF char_at(text, i) \in {"", "\""} THEN i - 1
    ELSE IF char_at(text, i) = "\\"
    THEN IF i < Len(text) THEN text_end(text, i + 2) ELSE i - 1
    ELSE text_end(text, i + 1)

\* The longest token that starts at i, a position that holds no whitespace:
\* its type and its last position.  A numeral is digits after an optional
\* sign, then a period or a slash and digits for a floating or a fraction.
numeral_token(text, whole, part) ==
    IF char_at(text, whole + 1) = "." /\ part >= whole + 2
    THEN [type |-> "FLOATING", end |-> part]
    ELSE IF char_at(text, whole + 1) = "/" /\ part >= whole + 2
    THEN [type |-> "FRACTION", end |-> part]
    ELSE [type |-> "INTEGRAL", end |-> whole]

identifier_token(i, end) ==
    IF end >= i THEN [type |-> "IDENTIFIER", end |-> end]
    ELSE [type |-> "UnexpectedCharacters", end |-> i]

word_token(text, i, from, whole) ==
    IF whole >= from
    THEN numeral_token(text, whole, digits_end(text, whole + 2))
    ELSE identifier_token(i, identifier_end(text, i))

token_from(text, i, c) ==
    IF c = "" THEN [type |-> "$END", end |-> i - 1]
    ELSE IF c \in {"(", ")", "[", "]", "'", ":", "\""}
    THEN [type |-> c, end |-> i]
    ELSE IF c \in {"+", "-"}
    THEN word_token(text, i, i + 1, digits_end(text, i + 1))
    ELSE word_token(text, i, i, digits_end(text, i))

token_at(text, i) == token_from(text, i, char_at(text, i))

\* a Numeric of a Python number, or the exception its conversion raised
numeric_of(v) ==
    IF v.py = "raise" THEN Raise(v.exc) ELSE Return(NumericOf(v))

\* Expression.symbol, atom, integral, floating and fraction
Expression_symbol(identifier) == Return(Symbol(identifier))
Expression_atom(colon, identifier) == Return(Atom(identifier))
Expression_integral(numeral) == numeric_of(int_of_str(numeral))
Expression_floating(numeral) == numeric_of(float_of_str(numeral))
Expression_fraction(numeral) == numeric_of(fraction_of_str(numeral))

\* re.sub(r"(?<!\\)\\([^\"\\])", r"\g<1>", value), from position i on
RECURSIVE unescaped(_, _)
unescaped(value, i) ==
    IF i > Len(value) THEN ""
    ELSE IF /\ char_at(value, i) = "\\"
            /\ char_at(value, i - 1) # "\\"
            /\ i < Len(value)
            /\ char_at(value, i + 1) \notin {"\"", "\\"}
    THEN char_at(value, i + 1) \o unescaped(value, i + 2)
    ELSE char_at(value, i) \o unescaped(value, i + 1)

\* value.strip("\"")
RECURSIVE strip_quotes(_)
strip_quotes(value) ==
    IF char_at(value, 1) = "\""
    THEN strip_quotes(SubSeq(value, 2, Len(value)))
    ELSE IF char_at(value, Len(value)) = "\""
    THEN strip_quotes(SubSeq(value, 1, Len(value) - 1))
    ELSE value

\* Expression.string
Expression_string(l_quote, text, r_quote) ==
    Return(String(strip_quotes(unescaped(l_quote \o text \o r_quote, 1))))

\* Expression.s_expression, vector and quoted
Expression_s_expression(expressions) == SExpression(expressions)
Expression_vector(expressions) == Vector(expressions)
Expression_quoted(quote, expression) == Quoted(expression)

\* the callback of the token of a numeral or of a symbol
callback(type, token) ==
    CASE type = "INTEGRAL" -> Expression_integral(token)
      [] type = "FLOATING" -> Expression_floating(token)
      [] type = "FRACTION" -> Expression_fraction(token)
      [] OTHER -> Expression_symbol(token)

token_amalgam(token) == callback(token_at(token, 1).type, token)

\* The reader holds the forms that are open, the innermost last: what
\* opened each and the expressions read in it.  Its state is that of the
\* innermost one.
Opened(open) == [open |-> open, items |-> <<>>]
reader_state(stack) ==
    LET top == stack[Len(stack)]
    IN CASE top.open = "top" ->
               IF top.items = <<>> THEN "start" ELSE "end"
         [] top.open = "(" ->
               IF top.items = <<>> THEN "paren_open" ELSE "paren_items"
         [] top.open = "[" ->
               IF top.items = <<>> THEN "bracket_open" ELSE "bracket_items"
         [] top.open = "'" -> "quote"
         [] top.open = ":" -> "colon"

\* lark's UnexpectedToken and UnexpectedCharacters, with the state of the
\* parser they carry
UnexpectedToken(state, type, text) ==
    [k |-> "UnexpectedToken", state |-> state, token |-> <<type, text>>]
UnexpectedCharacters(state) ==
    [k |-> "UnexpectedCharacters", state |-> state]

\* an expression was read: it closes the quotes that wait for it and joins
\* the innermost open form
RECURSIVE reduced(_, _)
reduced(stack, expression) ==
    LET n == Len(stack)
    IN IF stack[n].open = "'"
       THEN reduced(SubSeq(stack, 1, n - 1),
                    Expression_quoted("'", expression))
       ELSE [stack EXCEPT ![n].items = Append(@, expression)]

\* EXPR_PARSER.parse from position i on.  shifted: the last token read
\* ended an expression, so that the lexer meets a character it cannot read
\* in a state no complete text ends in.
RECURSIVE read_tokens(_, _, _, _)

\* the callback of a word was called: what it raised ends the parse
read_called(text, after, stack, called) ==
    IF called.k # "value" THEN [k |-> "raise", exc |-> called.exc]
    ELSE read_tokens(text, after, reduced(stack, called.v), TRUE)

\* a numeral, a symbol or the identifier of an atom: its callback is called
\* once the lexer has read the token after it
read_word(text, after, word, stack, state) ==
    IF token_at(text, skip(text, after)).type = "UnexpectedCharacters"
    THEN UnexpectedCharacters("shifted")
    ELSE IF state = "colon"
    THEN read_called(text, after, SubSeq(stack, 1, Len(stack) - 1),
                     Expression_atom(":", word))
    ELSE read_called(text, after, stack, token_amalgam(word))

\* a string from its left quote on: its text from the position after to
\* the position closed, and its right quote
read_string(text, after, closed, stack) ==
    IF closed < after
    THEN IF char_at(text, after) = "\\"
         THEN UnexpectedCharacters("string_open")
         ELSE UnexpectedToken("string_open",
                 IF after > Len(text) THEN "$END" ELSE "\"",
                 char_at(text, after))
    ELSE IF closed = Len(text)
    THEN UnexpectedToken("string_text", "$END", "")
    ELSE IF char_at(text, closed + 1) # "\""
    THEN UnexpectedCharacters("string_text")
    ELSE read_tokens(text, closed + 2,
            reduced(stack,
                    Expression_string("\"", SubSeq(text, after, closed),
                                      "\"").v),
            TRUE)

\* the token at the position at, in the state of the reader
read_token(text, at, token, stack, state, shifted) ==
    IF token.type = "UnexpectedCharacters"
    THEN UnexpectedCharacters(IF shifted THEN "shifted" ELSE state)
    ELSE IF token.type = "$END" /\ state = "end"
    THEN [k |-> "expr", expr |-> stack[1].items[1]]
    ELSE IF \/ token.type = "$END"
            \/ state = "end"
            \/ state = "colon" /\ token.type # "IDENTIFIER"
    THEN UnexpectedToken(state, token.type, SubSeq(text, at, token.end))
    ELSE IF token.type \in {"(", "[", "'", ":"}
    THEN read_tokens(text, at + 1, Append(stack, Opened(token.type)), FALSE)
    ELSE IF token.type = ")"
    THEN IF stack[Len(stack)].open # "("
         THEN UnexpectedToken(state, ")", ")")
         ELSE read_tokens(text, at + 1,
                 reduced(SubSeq(stack, 1, Len(stack) - 1),
                         Expression_s_expression(stack[Len(stack)].items)),
                 TRUE)
    ELSE IF token.type = "]"
    THEN IF stack[Len(stack)].open # "["
         THEN UnexpectedToken(state, "]", "]")
         ELSE read_tokens(text, at + 1,
                 reduced(SubSeq(stack, 1, Len(stack) - 1),
                         Expression_vector(stack[Len(stack)].items)),
                 TRUE)
    ELSE IF token.type = "\""
    THEN read_string(text, at + 1, text_end(text, at + 1), stack)
    ELSE read_word(text, token.end + 1, SubSeq(text, at, token.end), stack,
                   state)

read_at(text, at, stack, shifted) ==
    read_token(text, at, token_at(text, at), stack, reader_state(stack),
               shifted)

read_tokens(text, i, stack, shifted) ==
    read_at(text, skip(text, i), stack, shifted)

EXPR_PARSER_parse(text) == read_tokens(text, 1, <<Opened("top")>>, FALSE)

\* the pairs (label, malformed text) u.match_examples goes through, in order
labelled(examples) ==
    [j \in DOMAIN examples[2] |-> <<examples[1], examples[2][j]>>]
Examples ==
    labelled(ERROR_EXAMPLES[1]) \o labelled(ERROR_EXAMPLES[2])
        \o labelled(ERROR_EXAMPLES[3]) \o labelled(ERROR_EXAMPLES[4])

\* the smallest member of a set of numbers
least(S) == CHOOSE x \in S : \A y \in S : x <= y

\* u.match_examples(EXPR_PARSER.parse, ERROR_EXAMPLES.items()), where
\* errors holds what EXPR_PARSER.parse raises on each example: the label of
\* the first example that fails in the state of u on the token of u;
\* without one the label of the first example that fails in the state of
\* u; without one None
same_state(u, errors) == {e \in DOMAIN errors : errors[e].state = u.state}
same_token(u, errors) ==
    {e \in same_state(u, errors) :
        /\ u.k = "UnexpectedToken"
        /\ errors[e].k = "UnexpectedToken"
        /\ errors[e].token = u.token}
matched(u, errors) ==
    IF same_token(u, errors) # {}
    THEN Examples[least(same_token(u, errors))][1]
    ELSE IF same_state(u, errors) # {}
    THEN Examples[least(same_state(u, errors))][1]
    ELSE "None"
match_examples(u) ==
    matched(u, [e \in DOMAIN Examples |-> EXPR_PARSER_parse(Examples[e][2])])

\* Parser.parse lines 186-192: the ParsingError the examples name, or the
\* error of lark as it is
raised(u, exc_cls) ==
    [k |-> "raise", exc |-> IF exc_cls = "None" THEN u.k ELSE exc_cls]

\* Parser.parse, once EXPR_PARSER.parse gave u: the expression, the exception
\* a callback raised, or the error lines 186-192 raise
parse_outcome(u) ==
    IF u.k \in {"expr", "raise"} THEN u ELSE raised(u, match_examples(u))

parse(text) == parse_outcome(EXPR_PARSER_parse(text))

ParsingError ==
    {"ExpectedEOF", "ExpectedExpression", "MissingClosing", "MissingOpening"}
UnexpectedInput == {"UnexpectedToken", "UnexpectedCharacters"}

\* Parser.repl_parse lines 168-180 on the whole text of the buffer: the new
\* buffer, and what is returned or raised.  An exception that is neither
\* an UnexpectedInput nor a ParsingError passes lines 171-176 and leaves
\* the buffer as it is.
repl_parse_outcome(all, parsed) ==
    IF parsed.k = "expr"
    THEN [parse_buffer |-> "", k |-> "expr", expr |-> parsed.expr]
    ELSE IF parsed.exc = "MissingClosing"
    THEN [parse_buffer |-> all, k |-> "None"]
    ELSE IF parsed.exc \in UnexpectedInput \cup ParsingError
    THEN [parse_buffer |-> "", k |-> "raise", exc |-> parsed.exc]
    ELSE [parse_buffer |-> all, k |-> "raise", exc |-> parsed.exc]

\* Parser.repl_parse: the text joins the buffer and the whole is parsed
repl_parse(buffer, text) ==
    repl_parse_outcome(buffer \o text, parse(buffer \o text))

(***************************************************************************)
(* The REPL (Engine.repl): the user types lines.                           *)
(***************************************************************************)
\* the lines the user types: those of test_engine_repl, and lines that do
\* not parse
ReplLines ==
    { "(+ 42 42)", "(+ 1", "2 3)", "[4 3", "2 1]", "(/ 1 0)", "(+ x)",
      "(exit 0)", "", ")", "'", "1/0" }

\* the prompt Engine.repl shows: prompt if not cont else prompt_cont
prompt_shown(c) == IF c THEN "prompt_cont" ELSE "prompt"

\* Engine.repl lines 52-53: what the user typed, after a newline when continuing
repl_text(c, line) == IF c THEN "\n" \o line ELSE line

\* Engine.repl lines 57-59, once the expression was evaluated: the value is
\* printed, and an exception is caught and its class printed (lines 66-69);
\* cont is False after both.  SystemExit is no Exception: it ends the loop
\* before line 59, and cont is as it was.
repl_evaluated(line, s) ==
    /\ s.res.k # "OutOfFuel"
    /\ last' = [op |-> IF s.res = Raise("SystemExit") THEN "repl_exit"
                       ELSE "repl",
                line |-> line, prompt |-> prompt_shown(cont),
                parsed |-> "expr",
                out |-> IF s.res = Raise("SystemExit") THEN <<>>
                        ELSE <<s.res>>]
    /\ cont' = (s.res = Raise("SystemExit") /\ cont)
    /\ result' = s.res
    /\ log' = s.log
    /\ envs' = s.envs
    /\ fns' = s.fns

\* Engine.repl lines 60-61 and 66-69, when no expression was parsed: None
\* sets cont, an exception of the parser is caught and printed and resets
\* cont
repl_unparsed(line, parsed) ==
    /\ last' = [op |-> "repl", line |-> line, prompt |-> prompt_shown(cont),
                parsed |-> parsed.k,
                out |-> IF parsed.k = "raise" THEN <<parsed.exc>> ELSE <<>>]
    /\ cont' = (parsed.k = "None")
    /\ result' = IF parsed.k = "raise" THEN Raise(parsed.exc)
                 ELSE [k |-> "none"]
    /\ log' = <<>>
    /\ UNCHANGED <<envs, fns>>

\* one turn of the loop of Engine.repl on a line of the user
repl_parsed(line, parsed) ==
    /\ ops' = ops + 1
    /\ parse_buffer' = parsed.parse_buffer
    /\ IF parsed.k = "expr"
       THEN repl_evaluated(line, evaluate(parsed.expr, 1, start_state))
       ELSE repl_unparsed(line, parsed)

repl(line) ==
    repl_parsed(line, repl_parse(parse_buffer, repl_text(cont, line)))

\* Engine.repl lines 63-64: at the end of the input pd._exit prints its
\* farewell and raises SystemExit, which ends the loop
repl_eof ==
    /\ ops' = ops + 1
    /\ last' = [op |-> "repl_eof", prompt |-> prompt_shown(cont),
                out |-> <<"Goodbye.">>]
    /\ result' = Raise("SystemExit")
    /\ log' = <<>>
    /\ UNCHANGED <<envs, fns, parse_buffer, cont>>

NextRepl ==
    /\ ops < MaxReplLines
    /\ last.op \notin {"repl_eof", "repl_exit"}
    /\ \/ \E line \in ReplLines : repl(line)
       \/ repl_eof

SpecRepl == Init /\ [][NextRepl]_vars

(***************************************************************************)
(* The interpreter running programs that pass Functions around.            *)
(***************************************************************************)
\* (fn [x] (fn [] x))
MakeGetter ==
    Call2(Symbol("fn"), Vector(<<Symbol("x")>>),
          Call2(Symbol("fn"), Vector(<<>>), Symbol("x")))
\* (setr (unquote 'g) ((fn [x] (fn [] x)) 1)): g captures the scope of x
SetG == Setr("g", Call1(MakeGetter, Numeric(1)))
\* (g)
CallG == SExpression(<<Symbol("g")>>)
\* ((fn [f] f) g) and ((fn [f] f) +): a Function is returned by a body
ReturnG ==
    Call1(Call2(Symbol("fn"), Vector(<<Symbol("f")>>), Symbol("f")),
          Symbol("g"))
ReturnPlus ==
    Call1(Call2(Symbol("fn"), Vector(<<Symbol("f")>>), Symbol("f")),
          Symbol("+"))
\* ((fn [f] 0) g) and ((fn [f] 0) +): a Function is an argument only
PassG ==
    Call1(Call2(Symbol("fn"), Vector(<<Symbol("f")>>), Numeric(0)),
          Symbol("g"))
PassPlus ==
    Call1(Call2(Symbol("fn"), Vector(<<Symbol("f")>>), Numeric(0)),
          Symbol("+"))

ClosurePrograms == { SetG, CallG, ReturnG, ReturnPlus, PassG, PassPlus, Sum }

NextClosure ==
    /\ ops < MaxClosureRuns
    /\ \E program \in ClosurePrograms : parse_and_run(program)

SpecClosure == Init /\ [][NextClosure]_vars

(***************************************************************************)
(* The interpreter running loops over the values of a global variable.     *)
(***************************************************************************)
\* (setr (unquote 'v) value), for two Vectors with a payload key, a Vector
\* without one, a Numeric and a Function
SetPayload == Setr("v", Vector(<<Atom("payload"), Numeric(5)>>))
SetKeys ==
    Setr("v", Vector(<<Atom("a"), Numeric(1), Atom("payload"), Numeric(9)>>))
SetPair == Setr("v", Vector(<<Numeric(1), Numeric(2)>>))
SetSeven == Setr("v", Numeric(7))
SetPlus == Setr("v", Symbol("+"))
\* (loop v (break))
LoopV == Call2(Symbol("loop"), Symbol("v"), SExpression(<<Symbol("break")>>))
\* (loop (return v))
LoopReturnV == Call1(Symbol("loop"), Call1(Symbol("return"), Symbol("v")))
\* (loop [:payload 5] (break))
LoopLiteral ==
    Call2(Symbol("loop"), Vector(<<Atom("payload"), Numeric(5)>>),
          SExpression(<<Symbol("break")>>))
\* (loop 'v :a "s" + (break))
LoopValues ==
    SExpression(<<Symbol("loop"), Quoted(Symbol("v")), Atom("a"),
                  String("s"), Symbol("+"), SExpression(<<Symbol("break")>>)>>)

LoopPrograms ==
    { SetPayload, SetKeys, SetPair, SetSeven, SetPlus, LoopV, LoopReturnV,
      LoopLiteral, LoopValues }

NextLoop ==
    /\ ops < MaxLoopRuns
    /\ \E program \in LoopPrograms : parse_and_run(program)

SpecLoop == Init /\ [][NextLoop]_vars

TypeOK ==
    /\ ops \in 0..(MaxOps + MaxEnvOps + MaxScopeOps + MaxFailRuns + MaxCallRuns
                    + MaxLiteralOps + MaxVectorOps + MaxEngineRuns
                    + MaxReplLines + MaxClosureRuns
                    + MaxLoopRuns)
    /\ \A e \in DOMAIN envs : envs[e].search_depth = 0

(***************************************************************************)
(* Vocabulary of the properties.                                           *)
(***************************************************************************)
Root == 1
Ran(program) == last.op = "parse_and_run" /\ last.program = program
Bound(self, item) == item \in DOMAIN envs[self].bindings
LogIndices(op) == {i \in DOMAIN log : log[i].op = op}
\* the Function objects that are contextual (break and return)
Contextual == {f \in DOMAIN fns : fns[f].contextual}
\* a FailureStack as a list of (amalgam, environment, message)
Trace(res) == res.failures

\* the environments from self up to the root, nearest first
RECURSIVE Chain(_, _)
Chain(es, self) ==
    IF self = 0 THEN <<>> ELSE <<self>> \o Chain(es, es[self].parent)

\* what a lookup of item started at self with the given depth yields
Lookup(es, self, item, depth) ==
    getitem(search_at_enter(es, self, depth), self, item)

\* the closure f of the global environment and its captured environment
AdderDefined ==
    /\ Bound(Root, "f")
    /\ envs[Root].bindings["f"].t = "Function"
    /\ fns[envs[Root].bindings["f"].id].env # 0
AdderEnv == fns[envs[Root].bindings["f"].id].env

(***************************************************************************)
(* C1.  A function made by fn inside the body of a call resolves its free  *)
(* variables in the environment of that call, which it shares by           *)
(* reference: ((fn [x] (fn [y] (+ x y))) 1) applied to 2 is 3, and a call  *)
(* of the closure sees the value its captured environment holds for x at   *)
(* the time of the call, also when x was rebound after the closure was     *)
(* made.                                                                   *)
(***************************************************************************)
C1_ClosureSharesEnvironment ==
    /\ Ran(ClosureCall) => result = Return(Numeric(3))
    /\ Ran(SharedClosure) => result = Return(Numeric(7))
    /\ (Ran(CallAdder) /\ AdderDefined) =>
          /\ Bound(AdderEnv, "x")
          /\ result = Return(Numeric(envs[AdderEnv].bindings["x"].num + 2))

\* (f 2) was run after the host rebound x, made 1, to 5 in f's environment
C1_Witness ==
    /\ Ran(CallAdder)
    /\ AdderDefined
    /\ envs[AdderEnv].bindings["x"] = Numeric(5)
    /\ result = Return(Numeric(7))

(***************************************************************************)
(* C2.  When a Function with a captured environment is called, every      *)
(* argument of the call is evaluated against the captured environment and  *)
(* the underlying callable receives the captured environment, whatever     *)
(* environment the caller supplied; (f x) run in the global environment    *)
(* takes x from f's environment and leaves the global bindings alone.      *)
(***************************************************************************)
C2_CapturedEnvironmentReplacesCaller ==
    /\ \A i \in LogIndices("call") :
          log[i].bound # 0 =>
             \A j \in DOMAIN log :
                (log[j].op \in {"argument", "invoke"} /\ log[j].cid = log[i].cid)
                   => log[j].env = log[i].bound
    /\ (Ran(CallAdderX) /\ AdderDefined) =>
          /\ Bound(AdderEnv, "x")
          /\ result = Return(Numeric(2 * envs[AdderEnv].bindings["x"].num))

\* (f x) was run where the caller's x is 5 and the captured x is 1
C2_Witness ==
    /\ Ran(CallAdderX)
    /\ AdderDefined
    /\ Bound(Root, "x") /\ envs[Root].bindings["x"] = Numeric(5)
    /\ envs[AdderEnv].bindings["x"] = Numeric(1)
    /\ result = Return(Numeric(2))
    /\ \E i \in LogIndices("argument") : log[i].env = AdderEnv

(***************************************************************************)
(* C3.  A name set with search depth 0 on a child environment is bound in  *)
(* the child only: every other environment is unchanged, and a lookup of   *)
(* the name started from the parent yields, at every depth, what it        *)
(* yielded before.                                                         *)
(***************************************************************************)
C3_SetImmediateIsLocal ==
    [][(last'.op = "setitem" /\ last'.depth = 0) =>
          LET self == last'.env
              item == last'.item
              parent == envs[self].parent
          IN /\ item \in DOMAIN envs'[self].bindings
             /\ envs'[self].bindings[item] = last'.value
             /\ \A e \in DOMAIN envs : e # self => envs'[e] = envs[e]
             /\ parent # 0 =>
                   \A depth \in -1..envs[parent].level :
                      Lookup(envs', parent, item, depth)
                         = Lookup(envs, parent, item, depth)]_vars

\* a name was set with depth 0 in a child that held nothing, and no
\* ancestor binds it
C3_Witness ==
    /\ last.op = "setitem" /\ last.depth = 0
    /\ envs[last.env].parent # 0
    /\ DOMAIN envs[last.env].bindings = {last.item}
    /\ Lookup(envs, envs[last.env].parent, last.item, -1) = Raise("KeyError")

(***************************************************************************)
(* C4.  Setting a name with search depth -1 when an environment of the     *)
(* chain already binds it overwrites the binding in the nearest such       *)
(* environment; no environment gains a binding and every other             *)
(* environment is unchanged.                                               *)
(***************************************************************************)
\* the nearest environment of self's chain that binds item, 0 if none does
NearestHolder(es, self, item) ==
    LET chain == Chain(es, self)
        holders == {i \in 1..Len(chain) : item \in DOMAIN es[chain[i]].bindings}
    IN IF holders = {} THEN 0
       ELSE chain[CHOOSE i \in holders : \A j \in holders : i <= j]

C4_SetUnboundedOverwritesHolder ==
    [][(last'.op = "setitem" /\ last'.depth = -1
          /\ NearestHolder(envs, last'.env, last'.item) # 0) =>
          LET holder == NearestHolder(envs, last'.env, last'.item)
          IN /\ envs'[holder].bindings[last'.item] = last'.value
             /\ \A e \in DOMAIN envs :
                   /\ DOMAIN envs'[e].bindings = DOMAIN envs[e].bindings
                   /\ e # holder => envs'[e] = envs[e]]_vars

\* a name bound in a proper ancestor only was set from below with depth -1
C4_Witness ==
    /\ last.op = "setitem" /\ last.depth = -1
    /\ ~Bound(last.env, last.item)
    /\ NearestHolder(envs, last.env, last.item) \notin {0, last.env, Root}
    /\ envs[NearestHolder(envs, last.env, last.item)].bindings[last.item]
          = last.value

(***************************************************************************)
(* Reading the history: the entry where the evaluation that produced the   *)
(* result at j started, and the result of the evaluation that encloses it. *)
(***************************************************************************)
EvaluateIndex(j) ==
    CHOOSE k \in 1..(j - 1) :
       /\ log[k].op = "evaluate" /\ log[k].depth = log[j].depth
       /\ \A m \in (k + 1)..(j - 1) :
             ~(log[m].op = "evaluate" /\ log[m].depth = log[j].depth)
ParentResult(j) ==
    CHOOSE i \in (j + 1)..Len(log) :
       /\ log[i].op = "result" /\ log[i].depth = log[j].depth - 1
       /\ \A m \in (j + 1)..(i - 1) :
             ~(log[m].op = "result" /\ log[m].depth = log[j].depth - 1)
\* (loop ...)
IsLoopCall(node) ==
    node.t = "SExpression" /\ Len(node.vals) > 0 /\ node.vals[1] = Symbol("loop")
\* the value is what break or return hand to loop
IsEscape(res) == res.k = "value" /\ has_payload(res.v)
Payload(res) == dict_get(_as_mapping(res.v.vals), PyStr("payload"))
\* results of evaluations nested in another evaluation
Nested(op) == {j \in LogIndices(op) : log[j].depth > 1}

(***************************************************************************)
(* C5.  loop returns the payload of the first body expression whose result *)
(* is an escape: the loop of test_loop_return, run with a counter x,       *)
(* yields 42 and leaves x at 10; a loop that starts with (break) yields    *)
(* :NIL and does not evaluate what follows.                                *)
(***************************************************************************)
C5_LoopReturnsPayload ==
    /\ \A i \in LogIndices("result") :
          (IsLoopCall(log[i].node) /\ log[i].res.k = "value") =>
             /\ log[i - 1].op = "result"
             /\ IsEscape(log[i - 1].res)
             /\ log[i].res = Return(Payload(log[i - 1].res))
    /\ Ran(LoopBreak) =>
          /\ result = Return(Atom("NIL"))
          /\ \A i \in LogIndices("evaluate") : log[i].node # LoopBreak.vals[3]
    /\ (Ran(LoopReturn) /\ Bound(Root, "x")) =>
          /\ result = Return(Numeric(42))
          /\ envs[Root].bindings["x"] = Numeric(10)

(***************************************************************************)
(* C6.  A FailureStack raised by a body expression of loop leaves the      *)
(* (loop ...) expression with exactly one more entry, (the loop            *)
(* expression, its environment, "inherited"); for (loop u), u unbound, the *)
(* trace is [(u, env, "unbound symbol"), ((loop u), env, "inherited")].    *)
(***************************************************************************)
C6_LoopPropagatesFatal ==
    /\ Ran(LoopFatal) =>
          result = RaiseFailureStack(
                      << Failure(Symbol("u"), Root, "unbound symbol"),
                         Failure(LoopFatal, Root, "inherited") >>)
    /\ \A j \in Nested("result") :
          (/\ log[j].res.k = "FailureStack"
           /\ IsLoopCall(log[ParentResult(j)].node)) =>
             /\ ParentResult(j) = j + 1
             /\ log[j + 1].res = RaiseFailureStack(
                   Append(Trace(log[j].res),
                          Failure(log[j + 1].node, log[j + 1].env,
                                  "inherited")))

\* (loop (+ 1 u)) failed: the trace of (+ 1 u) plus the entry of the loop
C6_Witness ==
    /\ Ran(LoopFatalNested)
    /\ result.k = "FailureStack"
    /\ Len(Trace(result)) = 3
    /\ Trace(result)[1] = Failure(Symbol("u"), Root, "unbound symbol")
    /\ Trace(result)[3] = Failure(LoopFatalNested, Root, "inherited")

(***************************************************************************)
(* C7.  Whenever a top-level evaluation has finished, with a value or with *)
(* a FailureStack, break and return have in_context = false, and (break)   *)
(* run outside any loop fails with "invalid context".                      *)
(***************************************************************************)
C7_ContextClearedAfterLoop ==
    /\ (last.op = "parse_and_run" /\ result.k \in {"value", "FailureStack"}) =>
          \A f \in Contextual : ~fns[f].in_context
    /\ Ran(Break) =>
          /\ result.k = "FailureStack"
          /\ Trace(result)[1].message = "invalid context"

(***************************************************************************)
(* C8.  Every call of break or return made while a loop is running finds   *)
(* in_context = true.                                                      *)
(***************************************************************************)
C8_InContextDuringLoop ==
    \A i \in LogIndices("call") :
       (log[i].contextual /\ log[i].loops > 0) => log[i].in_context

(***************************************************************************)
(* C9.  A call of a contextual Function whose in_context is false          *)
(* evaluates no argument and does not invoke the callable; the calling     *)
(* S-expression fails with the entries (head, env, "invalid context") and  *)
(* (expression, env, "inherited").                                         *)
(***************************************************************************)
C9_InvalidContext ==
    \A i \in LogIndices("call") :
       (log[i].contextual /\ ~log[i].in_context) =>
          /\ \A j \in DOMAIN log :
                log[j].op \in {"argument", "invoke"} => log[j].cid # log[i].cid
          /\ log[i + 1].op = "result"
          /\ log[i + 1].res = RaiseFailureStack(
                << Failure(log[i + 1].node.vals[1], log[i].env,
                           "invalid context"),
                   Failure(log[i + 1].node, log[i + 1].env, "inherited") >>)
          /\ result.k = "FailureStack"
          /\ Trace(result)[1].message = "invalid context"

\* (return (setr (unquote 'w) 1)) was refused and w was not bound
C9_Witness ==
    /\ Ran(ReturnOutside)
    /\ result.k = "FailureStack"
    /\ Trace(result)[1] = Failure(Symbol("return"), Root, "invalid context")
    /\ ~Bound(Root, "w")

(***************************************************************************)
(* C10.  A Vector one of whose elements, or a call one of whose evaluated  *)
(* arguments, yields an escape evaluates to that same escape.              *)
(***************************************************************************)
\* the evaluation that produced the result at j is that of an element of a
\* Vector or of an argument that Function.call evaluates
IsElement(j) ==
    \/ log[ParentResult(j)].node.t = "Vector"
    \/ /\ EvaluateIndex(j) > 1
       /\ log[EvaluateIndex(j) - 1].op = "argument"

C10_EscapePassesThrough ==
    \A j \in Nested("result") :
       (IsEscape(log[j].res) /\ IsElement(j)) =>
          log[ParentResult(j)].res = log[j].res

(***************************************************************************)
(* The scopes a lookup started at self with the given depth considers: the *)
(* immediate scope and its depth nearest ancestors, the whole chain for a  *)
(* negative depth.                                                         *)
(***************************************************************************)
Horizon(es, self, depth) ==
    LET chain == Chain(es, self)
    IN IF depth >= 0 /\ depth + 1 <= Len(chain)
       THEN SubSeq(chain, 1, depth + 1)
       ELSE chain
\* the nearest environment of the horizon that binds item, 0 if none does
HorizonHolder(es, self, item, depth) ==
    LET horizon == Horizon(es, self, depth)
        holders == {i \in 1..Len(horizon) :
                       item \in DOMAIN es[horizon[i]].bindings}
    IN IF holders = {} THEN 0
       ELSE horizon[CHOOSE i \in holders : \A j \in holders : i <= j]
\* the operation made was given a depth that search_at accepts
DepthAccepted == last'.depth <= envs[last'.env].level

(***************************************************************************)
(* C11.  Evaluating Symbol(n) against an environment yields the binding of *)
(* n in the nearest environment of the whole parent chain, whatever search *)
(* depth the environment has when the evaluation starts; when no           *)
(* environment of the chain binds n the evaluation fails with the single   *)
(* entry (the symbol, the environment, "unbound symbol").                  *)
(***************************************************************************)
C11_SymbolSearchesWholeChain ==
    [][(last'.op = "evaluate" /\ DepthAccepted) =>
          LET self == last'.env
              n == last'.item
              holder == NearestHolder(envs, self, n)
          IN /\ envs' = envs
             /\ holder # 0 => result' = Return(envs[holder].bindings[n])
             /\ holder = 0 =>
                   result' = RaiseFailureStack(
                                <<Failure(Symbol(n), self, "unbound symbol")>>)
    ]_vars

\* a name bound in the grandparent only was found from an environment whose
\* search depth was 0
C11_Witness ==
    /\ last.op = "evaluate" /\ last.depth = 0
    /\ envs[last.env].level >= 2
    /\ HorizonHolder(envs, last.env, last.item, 1) = 0
    /\ NearestHolder(envs, last.env, last.item) # 0
    /\ result = Return(
          envs[NearestHolder(envs, last.env, last.item)].bindings[last.item])

(***************************************************************************)
(* C19.  With a search depth k >= 0, get, contains and delete consider the *)
(* immediate scope and its k nearest ancestors and act on the nearest of   *)
(* them that binds the name; when none of them binds it, get and delete    *)
(* raise KeyError and contains yields false, also when an environment      *)
(* further up binds the name, and no binding changes.  With a negative     *)
(* depth they consider the whole chain.                                    *)
(***************************************************************************)
C19_LookupHorizon ==
    [][(last'.op \in {"getitem", "contains", "delitem"} /\ DepthAccepted) =>
          LET self == last'.env
              item == last'.item
              holder == HorizonHolder(envs, self, item, last'.depth)
          IN /\ last'.op = "getitem" =>
                   /\ envs' = envs
                   /\ result' = IF holder # 0
                                THEN Return(envs[holder].bindings[item])
                                ELSE Raise("KeyError")
             /\ last'.op = "contains" =>
                   /\ envs' = envs
                   /\ result' = ReturnBool(holder # 0)
             /\ last'.op = "delitem" =>
                   /\ holder = 0 =>
                         envs' = envs /\ result' = Raise("KeyError")
                   /\ holder # 0 =>
                         /\ result'.k = "none"
                         /\ \A e \in DOMAIN envs :
                               e # holder => envs'[e] = envs[e]
                         /\ DOMAIN envs'[holder].bindings
                               = DOMAIN envs[holder].bindings \ {item}
                         /\ \A k \in DOMAIN envs'[holder].bindings :
                               envs'[holder].bindings[k]
                                  = envs[holder].bindings[k]
    ]_vars

\* a get with depth 1 missed a name that the grandparent binds
C19_Witness ==
    /\ last.op = "getitem" /\ last.depth = 1
    /\ result = Raise("KeyError")
    /\ NearestHolder(envs, last.env, last.item) # 0

(***************************************************************************)
(* C20.  Setting a name that no scope of the search horizon binds creates  *)
(* the binding in the farthest environment of the horizon: the ancestor k  *)
(* levels up for a search depth k > 0, the root for a negative depth, the  *)
(* immediate scope for depth 0.  No other environment changes.             *)
(***************************************************************************)
\* the farthest environment of the horizon
Farthest(es, self, depth) ==
    LET horizon == Horizon(es, self, depth) IN horizon[Len(horizon)]

C20_SetUnboundCreatesAtFarthest ==
    [][(/\ last'.op = "setitem" /\ DepthAccepted
        /\ HorizonHolder(envs, last'.env, last'.item, last'.depth) = 0) =>
          LET self == last'.env
              item == last'.item
              target == Farthest(envs, self, last'.depth)
          IN /\ envs[target].level
                   = IF last'.depth >= 0
                     THEN envs[self].level - last'.depth
                     ELSE 0
             /\ item \in DOMAIN envs'[target].bindings
             /\ envs'[target].bindings[item] = last'.value
             /\ \A e \in DOMAIN envs : e # target => envs'[e] = envs[e]
             /\ target # self => item \notin DOMAIN envs'[self].bindings
    ]_vars

\* a name bound nowhere was set with depth 1 from an environment of level 2:
\* the parent, and neither the environment nor the root, binds it
C20_Witness ==
    /\ last.op = "setitem" /\ last.depth = 1
    /\ envs[last.env].level = 2
    /\ ~Bound(last.env, last.item)
    /\ ~Bound(Root, last.item)
    /\ Bound(envs[last.env].parent, last.item)
    /\ envs[envs[last.env].parent].bindings[last.item] = last.value

(***************************************************************************)
(* Reading the history, continued.                                         *)
(***************************************************************************)
\* the evaluation that produced the result at j is that of the head of an
\* S-expression
IsHead(j) ==
    LET e == EvaluateIndex(j)
    IN /\ e > 1
       /\ log[e - 1].op = "evaluate"
       /\ log[e - 1].node.t = "SExpression"
       /\ log[e - 1].depth = log[j].depth - 1
\* ... is that of an argument that Function.call evaluates
IsArgument(j) ==
    /\ EvaluateIndex(j) > 1
    /\ log[EvaluateIndex(j) - 1].op = "argument"
\* the entry where the evaluation that starts at entry e ends
ResultIndex(e) ==
    CHOOSE r \in (e + 1)..Len(log) :
       /\ log[r].op = "result" /\ log[r].depth = log[e].depth
       /\ \A m \in (e + 1)..(r - 1) :
             ~(log[m].op = "result" /\ log[m].depth = log[e].depth)
\* the results of the evaluations made directly by the evaluation that
\* produced the result at i, and the m-th of them
Children(i) ==
    {j \in (EvaluateIndex(i) + 1)..(i - 1) :
        log[j].op = "result" /\ log[j].depth = log[i].depth + 1}
Child(i, m) ==
    CHOOSE j \in Children(i) :
       Cardinality({x \in Children(i) : x < j}) = m - 1
\* the node is evaluated somewhere in the history
Evaluated(node) == \E i \in LogIndices("evaluate") : log[i].node = node
\* the Function.call at entry i was not refused for its context
Admitted(i) == ~(log[i].contextual /\ ~log[i].in_context)
\* the entries of the call cid
OfCall(op, cid) == {j \in LogIndices(op) : log[j].cid = cid}

(***************************************************************************)
(* C12.  An S-expression whose head evaluates to a value that is not a     *)
(* Function fails with the entries (the head's value, the environment,     *)
(* "not a callable") and (the expression, the environment, "inherited"),   *)
(* and nothing is evaluated after the head: in ((+ 1 1) (setr 'w 1)) the   *)
(* argument is never evaluated.                                            *)
(***************************************************************************)
C12_NotCallable ==
    /\ \A h \in Nested("result") :
          (/\ IsHead(h)
           /\ log[h].res.k = "value"
           /\ log[h].res.v.t # "Function") =>
             /\ log[h + 1].op = "result"
             /\ log[h + 1].depth = log[h].depth - 1
             /\ log[h + 1].res = RaiseFailureStack(
                   << Failure(log[h].res.v, log[h + 1].env, "not a callable"),
                      Failure(log[h + 1].node, log[h + 1].env, "inherited") >>)
    /\ Ran(NotCallable) =>
          /\ result.k = "FailureStack"
          /\ Trace(result)[1] = Failure(Numeric(2), Root, "not a callable")
          /\ ~Evaluated(NotCallable.vals[2])

\* ((+ 1 1) (setr 'w 1)) failed on its head, whose value is 2, and w is
\* not bound
C12_Witness ==
    /\ Ran(NotCallable)
    /\ result.k = "FailureStack"
    /\ Trace(result)[1] = Failure(Numeric(2), Root, "not a callable")
    /\ ~Bound(Root, "w")

(***************************************************************************)
(* C13.  A FailureStack that leaves an evaluation gains one entry for each *)
(* boundary it crosses on the way to the enclosing evaluation: one for the *)
(* argument evaluation of a Function call, when the failed evaluation is   *)
(* that of an argument, and one for the enclosing S-expression or Vector;  *)
(* the entries it had stay as they were, in front of the new ones.         *)
(***************************************************************************)
C13_OneEntryPerBoundary ==
    \A j \in Nested("result") :
       log[j].res.k = "FailureStack" =>
          LET parent == log[ParentResult(j)].res
              inner == Trace(log[j].res)
              crossed == (IF IsArgument(j) THEN 1 ELSE 0) + 1
          IN /\ parent.k = "FailureStack"
             /\ Len(Trace(parent)) = Len(inner) + crossed
             /\ SubSeq(Trace(parent), 1, Len(inner)) = inner
             /\ \A m \in (Len(inner) + 1)..Len(Trace(parent)) :
                   Trace(parent)[m].message = "inherited"

(***************************************************************************)
(* C14.  A Vector evaluates its items from left to right, each once, into  *)
(* a new Vector of their values; when an item fails no later item is       *)
(* evaluated and the Vector fails with the trace of the item plus the      *)
(* entry (the vector, the environment, "inherited").                       *)
(***************************************************************************)
C14_VectorShortCircuit ==
    /\ \A i \in LogIndices("result") :
          log[i].node.t = "Vector" =>
             LET n == Cardinality(Children(i))
                 vals == log[i].node.vals
             IN /\ n <= Len(vals)
                /\ \A m \in 1..n :
                      /\ log[Child(i, m)].node = vals[m]
                      /\ log[Child(i, m)].env = log[i].env
                      /\ log[Child(i, m)].res.k # "value" =>
                            /\ m = n
                            /\ Child(i, m) = i - 1
                            /\ log[Child(i, m)].res.k = "FailureStack" =>
                                  log[i].res = RaiseFailureStack(
                                     Append(Trace(log[Child(i, m)].res),
                                            Failure(log[i].node, log[i].env,
                                                    "inherited")))
                /\ (\A m \in 1..n : log[Child(i, m)].res.k = "value") =>
                      /\ n = Len(vals)
                      /\ log[i].res = Return(Vector(
                            [m \in 1..n |-> log[Child(i, m)].res.v]))
    /\ Ran(VectorFatal) => ~Evaluated(VectorFatal.vals[3])

\* [(setr 'b 2) u (setr 'w 1)] failed on u: b is bound, w is not
C14_Witness ==
    /\ Ran(VectorFatal)
    /\ result = RaiseFailureStack(
          << Failure(Symbol("u"), Root, "unbound symbol"),
             Failure(VectorFatal, Root, "inherited") >>)
    /\ Bound(Root, "b")
    /\ ~Bound(Root, "w")

(***************************************************************************)
(* C15.  A call of a Function with defer = false evaluates the arguments   *)
(* in order, each once, in the environment of the call; once an argument   *)
(* fails no later argument is evaluated and the callable is not invoked;   *)
(* when none fails the callable is invoked once with the values in the     *)
(* order of the arguments, and what it returns is the result of the call.  *)
(***************************************************************************)
C15_ArgumentsInOrder ==
    /\ \A i \in LogIndices("call") :
          (~log[i].defer /\ Admitted(i)) =>
             LET cid == log[i].cid
                 A == OfCall("argument", cid)
                 I == OfCall("invoke", cid)
                 n == Cardinality(A)
                 Arg(m) == CHOOSE j \in A : log[j].index = m
                 Res(m) == log[ResultIndex(Arg(m) + 1)].res
             IN /\ {log[j].index : j \in A} = 1..n
                /\ n <= Len(log[i].arguments)
                /\ \A j1, j2 \in A : j1 < j2 => log[j1].index < log[j2].index
                /\ \A j \in A :
                      /\ log[j].node = log[i].arguments[log[j].index]
                      /\ log[j + 1] = LogEvaluate(log[j].node, log[i].env,
                                                   log[j + 1].depth)
                /\ \A m \in 1..n : Res(m).k # "value" => (m = n /\ I = {})
                /\ (\A m \in 1..n : Res(m).k = "value") =>
                      /\ n = Len(log[i].arguments)
                      /\ Cardinality(I) = 1
                      /\ \A j \in I :
                            /\ log[j].env = log[i].env
                            /\ log[j].args = [m \in 1..n |-> Res(m).v]
    /\ \A j \in LogIndices("invoke") :
          \* + evaluates nothing: the next entry is the result of the call
          /\ fns[log[j].fn].name = "+" =>
                /\ log[j + 1].op = "result"
                /\ log[j + 1].res = _add(log[j].args)
          \* a function made by fn returns the value of its body
          /\ fns[log[j].fn].kind = "closure_fn" =>
                LET body == ResultIndex(j + 2)
                IN log[body].res.k = "value" =>
                      /\ log[body + 1].op = "result"
                      /\ log[body + 1].res = log[body].res
    /\ Ran(CallFatal) => ~Evaluated(CallFatal.vals[4])
    /\ Ran(CallOrder) => result = Return(Numeric(3))

\* (+ (setr 'a 1) u (setr 'w 1)) failed on u: a is bound, w is not
C15_Witness ==
    /\ Ran(CallFatal)
    /\ result.k = "FailureStack"
    /\ Trace(result)[1] = Failure(Symbol("u"), Root, "unbound symbol")
    /\ Bound(Root, "a")
    /\ ~Bound(Root, "w")

(***************************************************************************)
(* C16.  A call of a Function with defer = true evaluates no argument: the *)
(* callable is invoked with the argument expressions themselves, in their  *)
(* order, and an expression the callable does not evaluate is never        *)
(* evaluated: (and (setr 'a :TRUE) :FALSE (setr 'w 1)) is :FALSE and its   *)
(* last expression is not evaluated.                                       *)
(***************************************************************************)
C16_DeferredArgumentsUnevaluated ==
    /\ \A i \in LogIndices("call") :
          (log[i].defer /\ Admitted(i)) =>
             /\ OfCall("argument", log[i].cid) = {}
             /\ OfCall("invoke", log[i].cid) = {i + 1}
             /\ log[i + 1].args = log[i].arguments
    /\ Ran(And) =>
          /\ result = Return(Atom("FALSE"))
          /\ Evaluated(And.vals[2])
          /\ ~Evaluated(And.vals[4])
    /\ Ran(IfSkip) =>
          /\ result = Return(Numeric(2))
          /\ ~Evaluated(IfSkip.vals[4])

\* (and (setr 'a :TRUE) :FALSE (setr 'w 1)) was run: a is bound, w is not
C16_Witness ==
    /\ Ran(And)
    /\ result = Return(Atom("FALSE"))
    /\ Bound(Root, "a") /\ envs[Root].bindings["a"] = Atom("TRUE")
    /\ ~Bound(Root, "w")

(***************************************************************************)
(* C17.  Every call of a function made by create_fn pushes a new child of  *)
(* the call environment and binds the formals there; no two calls share    *)
(* that child; a binding of an environment that existed before the run     *)
(* changes only where a setr of the program, run in that environment, set  *)
(* that name.  After (let [[x 21] [y 21]] (+ x y)), which is 42, the       *)
(* global bindings are what they were.                                     *)
(***************************************************************************)
\* the binding of k in e is not what it was
Rebound(e, k) ==
    \/ (k \in DOMAIN envs[e].bindings) # (k \in DOMAIN envs'[e].bindings)
    \/ /\ k \in DOMAIN envs[e].bindings
       /\ k \in DOMAIN envs'[e].bindings
       /\ envs'[e].bindings[k] # envs[e].bindings[k]

C17_ParametersInFreshScope ==
    [][last'.op = "parse_and_run" =>
          LET h == log'
              pushes == {j \in DOMAIN h : h[j].op = "push"}
              invokes == {j \in DOMAIN h : h[j].op = "invoke"}
          IN /\ \A j \in invokes :
                   fns'[h[j].fn].kind = "closure_fn" =>
                      LET fargs == fns'[h[j].fn].fargs
                          cl_env == h[j + 1].env
                      IN /\ h[j + 1].op = "push"
                         /\ h[j + 1].parent = h[j].env
                         /\ cl_env \notin DOMAIN envs
                         /\ cl_env \in DOMAIN envs'
                         /\ envs'[cl_env].parent = h[j].env
                         /\ Len(h[j].args) >= Len(fargs) =>
                               \A m \in 1..Len(fargs) :
                                  fargs[m] \in DOMAIN h[j + 1].bindings
                         /\ \A m \in 1..Len(fargs) :
                               ("&rest" \notin {fargs[x] : x \in 1..Len(fargs)}
                                /\ Len(h[j].args) = Len(fargs)
                                /\ \A x \in 1..Len(fargs) :
                                      x # m => fargs[x] # fargs[m]) =>
                                  h[j + 1].bindings[fargs[m]] = h[j].args[m]
             /\ \A j1, j2 \in pushes : j1 # j2 => h[j1].env # h[j2].env
             /\ \A e \in DOMAIN envs :
                   \A k \in DOMAIN envs[e].bindings
                             \cup DOMAIN envs'[e].bindings :
                      Rebound(e, k) =>
                         \E j \in invokes :
                            /\ fns'[h[j].fn].name = "setr"
                            /\ h[j].env = e
                            /\ h[j].args[1] = Setr(k, Numeric(0)).vals[2]
             /\ last'.program = Let =>
                   /\ result' = Return(Numeric(42))
                   /\ envs'[Root] = envs[Root]
    ]_vars

\* the two calls of f in TwoCalls gave g and h two environments, with a
\* bound to 1 in one and to 2 in the other, and the global one has no a
C17_Witness ==
    /\ Ran(TwoCalls)
    /\ result = Return(Numeric(3))
    /\ ~Bound(Root, "a")
    /\ LET g == fns[envs[Root].bindings["g"].id].env
           h == fns[envs[Root].bindings["h"].id].env
       IN /\ g # h
          /\ envs[g].parent = Root /\ envs[h].parent = Root
          /\ envs[g].bindings["a"] = Numeric(1)
          /\ envs[h].bindings["a"] = Numeric(2)

(***************************************************************************)
(* C18.  In each of the four layouts with one &rest, a call with at least  *)
(* as many arguments as there are fixed formals binds the leading formals  *)
(* to the first arguments, the trailing formals to the last arguments and  *)
(* &rest to the Vector of the arguments between them, in their order.      *)
(***************************************************************************)
\* what the formals of the layout hold when the arguments are 1 .. n
RestExpected(layout, n) ==
    LET l == (CHOOSE i \in 1..Len(layout) : layout[i] = "&rest") - 1
        r == Len(layout) - l - 1
    IN [m \in 1..Len(layout) |->
          IF m <= l THEN Numeric(m)
          ELSE IF m = l + 1
               THEN Vector([i \in 1..(n - l - r) |-> Numeric(l + i)])
               ELSE Numeric(n - Len(layout) + m)]

C18_RestBinding ==
    \A layout \in RestLayouts, n \in 0..MaxArgs :
       (Ran(RestCall(layout, n)) /\ n >= Len(layout) - 1) =>
          /\ result = Return(Vector(RestExpected(layout, n)))
          /\ \E j \in LogIndices("push") :
                DOMAIN log[j].bindings = {layout[i] : i \in 1..Len(layout)}

\* (fn [a &rest b] ...) was called with 1 2 3 4
C18_Witness ==
    /\ Ran(RestCall(<<"a", "&rest", "b">>, 4))
    /\ result = Return(Vector(<< Numeric(1),
                                 Vector(<<Numeric(2), Numeric(3)>>),
                                 Numeric(4) >>))

(***************************************************************************)
(* C21.  search_at restores search_depth to 0 on every exit, also when the *)
(* lookup raised: between the operations every environment has            *)
(* search_depth 0, and so it has whenever a primordial or the body of a    *)
(* function starts to run.                                                 *)
(***************************************************************************)
C21_SearchDepthRestored ==
    /\ searching(envs) = {}
    /\ \A j \in LogIndices("invoke") \cup LogIndices("push") :
          log[j].searching = {}

\* (let [[x u]] ...): let was invoked, the lookup of u raised
C21_Witness ==
    /\ Ran(LetUnbound)
    /\ result.k = "FailureStack"
    /\ Trace(result)[1].message = "unbound symbol"
    /\ \E j \in LogIndices("invoke") : fns[log[j].fn].name = "let"

(***************************************************************************)
(* C22.  search_at with a depth greater than the level of the environment  *)
(* raises ValueError before anything changes: no environment is changed    *)
(* and the enclosed lookup does not run.  No lookup walks past the root of *)
(* the chain (a walk that did would raise AttributeError on None).         *)
(***************************************************************************)
ScopedOps == {"getitem", "setitem", "contains", "delitem", "evaluate"}

C22_DepthAboveLevelRefused ==
    [][last'.op \in ScopedOps =>
          /\ ~DepthAccepted =>
                /\ result' = Raise("ValueError")
                /\ envs' = envs
                /\ log' = <<>>
          /\ result' # Raise("AttributeError")
          /\ DepthAccepted => result' # Raise("ValueError")
    ]_vars

\* a lookup at depth 2 from a child of the global environment was refused
C22_Witness ==
    /\ last.op = "getitem"
    /\ envs[last.env].level = 1
    /\ last.depth = 2
    /\ result = Raise("ValueError")

(***************************************************************************)
(* C23.  A literal (Atom, Numeric, String, Quoted, Function, Internal)     *)
(* evaluates to itself in every environment and changes no environment and *)
(* no Function; nothing else is evaluated on the way, so the expression    *)
(* held by a Quoted is not.                                                *)
(***************************************************************************)
C23_LiteralsSelfEvaluate ==
    [][last'.op = "evaluate_literal" =>
          /\ result' = Return(last'.literal)
          /\ envs' = envs
          /\ fns' = fns
          /\ \A j \in DOMAIN log' :
                log'[j].op \in {"evaluate", "result"}
                   => log'[j].node = last'.literal
    ]_vars

\* '(setr 'w 1) was evaluated in a child environment: it is the result and
\* w is bound nowhere
C23_Witness ==
    /\ last.op = "evaluate_literal"
    /\ last.literal = Quoted(Setr("w", Numeric(1)))
    /\ last.env # Root
    /\ result = Return(Quoted(Setr("w", Numeric(1))))
    /\ \A e \in DOMAIN envs : ~Bound(e, "w")

(***************************************************************************)
(* C24.  The mapping of a Vector is non-empty exactly when its length is   *)
(* even and not zero and every element at an even index (counted from 0)   *)
(* is an Atom.  It then holds the values of these Atoms, a key being taken *)
(* once for Atoms whose values are the same object or equal, each mapped   *)
(* to the element that follows the LAST Atom of that key.  So it is for    *)
(* Vectors built directly and for the results of merge, slice, cons, snoc, *)
(* remove.  No Vector is built, and TypeError is raised, exactly when the  *)
(* length is even and an Atom whose value cannot be hashed stands at an    *)
(* even index with only Atoms at the even indices before it.               *)
(***************************************************************************)
\* the indices (from 1) of the elements at the even indices of the code
Keys(vals) == {i \in 1..Len(vals) : i % 2 = 1}

IsMapForm(vals) ==
    /\ Len(vals) % 2 = 0
    /\ Len(vals) # 0
    /\ \A i \in Keys(vals) : vals[i].t = "Atom"

\* two Atom values that make one key: the same object, or equal values
SameKey(a, b) ==
    \/ a = b /\ a.py = "float" /\ a.kind = "nan" /\ a.id # <<0, 0>>
    \/ py_eq(a, b)

\* an Atom whose value is an Amalgam, which has no hash, is used as a key
KeyWithoutHash(vals) ==
    /\ Len(vals) % 2 = 0
    /\ \E i \in Keys(vals) :
          /\ vals[i].t = "Atom"
          /\ value_of(vals[i]).py = "object"
          /\ \A j \in Keys(vals) : j < i => vals[j].t = "Atom"

C24_MappingOfLastOccurrence ==
    /\ result.k = "vector" =>
          /\ (result.mapping # <<>>) <=> IsMapForm(result.vals)
          /\ ~KeyWithoutHash(result.vals)
          /\ IsMapForm(result.vals) =>
                /\ \A k \in 1..Len(result.mapping) :
                      /\ \E i \in Keys(result.vals) :
                            result.mapping[k][1] = value_of(result.vals[i])
                      /\ \A l \in 1..Len(result.mapping) :
                            l # k => ~SameKey(result.mapping[l][1],
                                              result.mapping[k][1])
                /\ \A i \in Keys(result.vals) :
                      /\ \E k \in 1..Len(result.mapping) :
                            SameKey(result.mapping[k][1],
                                    value_of(result.vals[i]))
                      /\ \A k \in 1..Len(result.mapping) :
                            (/\ SameKey(result.mapping[k][1],
                                        value_of(result.vals[i]))
                             /\ \A j \in Keys(result.vals) :
                                   j > i => ~SameKey(value_of(result.vals[j]),
                                                     value_of(result.vals[i])))
                            => result.mapping[k][2] = result.vals[i + 1]
    /\ last.op = "Vector" =>
          /\ result.k \in {"vector", "Exception"}
          /\ result.k = "Exception" <=> KeyWithoutHash(last.operands)
          /\ result.k = "Exception" => result.exc = "TypeError"
          /\ result.k = "vector" => result.vals = last.operands

\* the claim as stated: every Atom at an even index is mapped to the
\* element that follows it
C24_MappingOfEveryOccurrence ==
    (result.k = "vector" /\ IsMapForm(result.vals)) =>
       \A i \in Keys(result.vals) :
          \E k \in 1..Len(result.mapping) :
             /\ SameKey(result.mapping[k][1], value_of(result.vals[i]))
             /\ result.mapping[k][2] = result.vals[i + 1]

\* cons of :bar onto [42 :foo 21], as in test_cons
C24_Witness ==
    /\ last.op = "cons"
    /\ last.vector.vals = <<Numeric(42), Atom("foo"), Numeric(21)>>
    /\ last.vector.mapping = <<>>
    /\ result.vals = <<Atom("bar"), Numeric(42), Atom("foo"), Numeric(21)>>
    /\ result.mapping = << <<PyStr("bar"), Numeric(42)>>,
                           <<PyStr("foo"), Numeric(21)>> >>

(***************************************************************************)
(* C25.  Engine.interpret on a program whose evaluation fails fatally      *)
(* returns normally, having written the failure to the error stream and    *)
(* nothing to the normal output.                                           *)
(***************************************************************************)
C25_InterpretReportsFailure ==
    (last.op = "interpret" /\ last.evaluated.k = "FailureStack") =>
       /\ result = [k |-> "none"]
       /\ last.err # <<>>
       /\ last.out = <<>>

(***************************************************************************)
(* C26.  A primordial called with malformed arguments (a let binding that  *)
(* is not a pair of a Symbol and a value, an if with arguments missing)    *)
(* ends in a FailureStack whose first entry was made where the fault was   *)
(* found, never in a host exception; the body of a malformed let is not    *)
(* evaluated and nothing is bound.                                         *)
(***************************************************************************)
Malformed == {LetNotVector, LetNotSymbol, LetTooShort, IfArity}

C26_MalformedArgumentsFailStructured ==
    [][(last'.op = "parse_and_run" /\ last'.program \in Malformed) =>
          /\ result'.k = "FailureStack"
          /\ Trace(result')[1].message # "inherited"
          /\ \A i \in DOMAIN log' :
                log'[i].op = "evaluate"
                   => log'[i].node # Setr("w", Numeric(1))
          /\ envs' = envs
    ]_vars

(***************************************************************************)
(* C27.  (setn x 21) binds x in the environment of the call to 21 and      *)
(* returns 21.  When the expression fails, as in (setn x u), nothing is    *)
(* bound or changed and the failure of u is the first entry of the trace.  *)
(***************************************************************************)
C27_SetnBindsAndReturns ==
    [][last'.op = "parse_and_run" =>
          /\ last'.program = Setn =>
                /\ result' = Return(Numeric(21))
                /\ envs' = bind_in(envs, Root, "x", Numeric(21))
          /\ (last'.program = SetnUnbound /\ result'.k = "FailureStack") =>
                /\ Trace(result')[1] =
                      Failure(Symbol("u"), Root, "unbound symbol")
                /\ envs' = envs
    ]_vars


(***************************************************************************)
(* The REPL and its parse buffer.                                          *)
(***************************************************************************)
\* the text Parser.repl_parse parses in a turn on a line: the buffer, then
\* the line after a newline when the turn continues a form
Accumulated(line) == parse_buffer \o repl_text(cont, line)

\* the turn that ended in this state met an error the loop caught
CaughtError ==
    /\ last.op = "repl"
    /\ \/ last.parsed = "raise"
       \/ last.parsed = "expr" /\ result.k # "value"

\* the loop of Engine.repl is at its prompt: it takes the next line, or the
\* end of the input
Prompting == last.op \notin {"repl_eof", "repl_exit"}

\* C28: in the REPL a line that leaves a form unclosed stays in the parse
\* buffer and the continuation prompt is shown next, until the accumulated
\* text parses; after an expression was parsed and evaluated, after a
\* parsing error of another kind and after an exception of the evaluation
\* the buffer is empty and the regular prompt is shown next.  At every
\* prompt cont is set exactly when the buffer is not empty, and after
\* every such error the loop prompts again.
C28_ReplKeepsUnclosedForms ==
    /\ [](cont <=> parse_buffer # "")
    /\ []((CaughtError /\ ops < MaxReplLines) => Prompting)
    /\ [][last'.op = "repl" =>
            /\ last'.prompt = prompt_shown(cont)
            /\ IF parse(Accumulated(last'.line))
                     = [k |-> "raise", exc |-> "MissingClosing"]
               THEN /\ parse_buffer' = Accumulated(last'.line)
                    /\ prompt_shown(cont') = "prompt_cont"
               ELSE /\ parse_buffer' = ""
                    /\ prompt_shown(cont') = "prompt"
                    /\ last'.parsed = "expr" =>
                          result'.k \in {"value", "FailureStack", "Exception"}
          ]_vars

(***************************************************************************)
(* The captured environment of a Function.                                 *)
(***************************************************************************)
\* C29: the captured environment of a Function is never replaced by a
\* later evaluation, and a Function without one acquires none by being
\* passed as an argument or returned from a body: across every top-level
\* evaluation each Function that existed before it has the env it had.
C29_CapturedEnvironmentKept ==
    [][\A f \in DOMAIN fns : fns'[f].env = fns[f].env]_vars

\* g was returned by the body of another function and then called: its
\* free variable x is no longer found
C29_Rebound ==
    /\ Ran(CallG)
    /\ result.k = "FailureStack"
    /\ result.failures[1].message = "unbound symbol"
    /\ result.failures[1].amalgam = Symbol("x")

(***************************************************************************)
(* What ends a loop.                                                       *)
(***************************************************************************)
\* the program is a call of loop
IsLoop(program) ==
    /\ program.t = "SExpression"
    /\ Len(program.vals) > 0
    /\ program.vals[1] = Symbol("loop")

\* the value the escape of the call of break or return logged at i carries
EscapeValue(i) ==
    IF fns[log[i].fn].name = "return" THEN log[i].args[1] ELSE Atom("NIL")

\* C30: a loop ends only by an escape that a call of break or return made
\* during that loop produced, and never because a body expression yielded
\* an ordinary value: when a loop has returned a value, break or return
\* was invoked during it and the value is the one that escape carries.
C30_LoopEndsByEscapeOnly ==
    (last.op = "parse_and_run" /\ IsLoop(last.program) /\ result.k = "value")
    => \E i \in DOMAIN log :
          /\ log[i].op = "invoke"
          /\ fns[log[i].fn].name \in {"break", "return"}
          /\ result.v = EscapeValue(i)
====
